---- MODULE Spec2Model ----
(***************************************************************************)
(* Model of the multi-device BLE page (src/app/routes/approach-five.tsx):  *)
(* the device registry (React state `devices`), the async operations       *)
(* scanForDevices / connectToDevice / disconnectDevice / removeDevice      *)
(* split at their await points, the notification and gattserverdisconnected*)
(* listeners, and the Web Bluetooth transport the page consumes.           *)
(*                                                                         *)
(* The recording buffers and their CSV export (startRecording,             *)
(* stopRecording, generateCSV) and the telemetry decoder (parseIMUString)   *)
(* belong to the same page.  The single-device Nordic UART page             *)
(* (src/app/routes/approach-two.tsx) is modelled next to it with its own    *)
(* variables.                                                              *)
(*                                                                         *)
(* React state setters with an updater (setDevices(prev => ...)) act on    *)
(* the latest registry; a callback's `devices` is the registry as of the   *)
(* render in which the callback was created, i.e. at the time of the call. *)
(***************************************************************************)
EXTENDS Integers, Sequences, FiniteSets, TLC

\* ------------------------------------------------------------- bounds
\* Devices the chooser can return.
DeviceIds == {"d1", "d2"}
\* Closures (handler pairs) per device that can be alive at once.
MaxHandlers == 2
\* Longest recording buffer explored.
MaxRecorded == 1

\* Most tokens in a decoded text.
MaxTokens == 2

\* Most samples in a recording that is exported.
MaxSamples == 2

\* Most characteristics the service lists.
MaxChars == 2
\* Log length up to which a new connect, notification or advertisement is explored.
MaxLogs == 2
\* Most readValue() calls pending at once.
MaxReads == 1
\* Most advertisement listeners added to the device object.
MaxAdv == 1
\* Most log entries in the list that carry the marked value.
MaxMarked == 1

HandlerNums == 1..MaxHandlers

\* `undefined` for a string-valued field.
None == "undefined"

\* ------------------------------------------------------ error messages
ErrNoGatt == "GATT server not available on this device."
ErrConnect == "connect rejected"
ErrIMU == "IMU Service: failed"
ErrNotFound == "Device not found"
ErrUnexpected == "Device disconnected unexpectedly"
ErrParse == "IMU: Packet parsing failed"

\* ------------------------------------------------------ status messages
StReady == "Ready"
StRequesting == "Requesting device from user..."
StAlready == "already in the list"
StAdded == "added"
StScanError == "Scan Error"
StConnecting == "Connecting"
StNotFound == "not found or missing device object"
StIMUReady == "Connected. IMU ready."
StIMUFailed == "Connected, but IMU service failed"
StConnFailed == "Connection failed"
StDisconnecting == "Disconnecting"
StDisconnected == "Disconnected"
StRemoved == "Device removed from list"
StRecStarted == "Recording started"
StRecStopped == "Recording stopped"

\* -------------------------------------------------------------- state
VARIABLES
  devices,        \* useState devices: sequence of ExtendedBluetoothDeviceInfo
  isScanning,     \* useState isScanning (a scan is awaiting the chooser)
  globalStatus,   \* useState globalStatus
  isRecording,    \* useState isRecording
  recordedData,   \* useState recordedData: deviceId -> sequence of IMUData
  gattConnected,  \* transport: device.gatt.connected, per device
  pendingDisc,    \* transport: a gattserverdisconnected event is queued
  devListeners,   \* 'gattserverdisconnected' listeners on each device object
  charListeners,  \* 'characteristicvaluechanged' listeners on the session's characteristic
  cpc,            \* connectToDevice in flight per device: the await it is suspended at
  cH,             \* ... the handler closures this call creates
  dpc,            \* disconnectDevice in flight per device: the await it is suspended at
  dSnap,          \* ... the handlers it read from its `devices` snapshot
  downloads,      \* downloadCSV: the CSV file last downloaded per device
  gattIds,        \* environment: the devices whose deviceObject.gatt exists
  discDone,       \* history: disconnectDevice(d) has completed and
                  \* connectToDevice(d) has not been called since
  \* approach two (src/app/routes/approach-two.tsx)
  isSupported,    \* useState isSupported, as the mount effect sets it
  twoDevice,      \* useState device: a device is held (not null)
  isConnected,    \* useState isConnected
  twoIsScanning,  \* useState isScanning
  dataLogs,       \* useState dataLogs, newest first
  error,          \* useState error
  isReading,      \* useState isReading
  characteristicRef, \* characteristicRef.current
  intervalRef,    \* intervalRef.current and the timer behind it
  linkUp,         \* transport: device.gatt.connected
  valueListener,  \* the 'characteristicvaluechanged' listener on the session's characteristic
  advListeners,   \* number of 'advertisementreceived' listeners on the device object
  tpc,            \* connectToDevice in flight: the await it is suspended at
  notifPending,   \* a startNotifications() promise is pending
  readsInFlight,  \* readValue() promises pending
  \* approach three (src/app/routes/approach-three.tsx)
  threeDevices,   \* useState devices: sequence of BluetoothDeviceInfo
  threeIsScanning,\* useState isScanning
  threeError,     \* useState error
  threeLink,      \* transport: device.gatt.connected, per device
  threeHandlers,  \* a 'gattserverdisconnected' listener of the page is on the device object
  threePc,        \* connectDevice in flight: the await it is suspended at, its
                  \* `devices` and the device the chooser returned
  \* approach four (src/app/routes/approach-four.tsx)
  fourImuData,    \* useState imuData
  fourError,      \* useState error
  fourIsConnected,\* useState isConnected
  fourDevice,     \* useState device: a device is held (not null)
  fourCharacteristic, \* useState characteristic: one is held (not null)
  fourLink,       \* transport: device.gatt.connected
  fourPendingDisc,\* transport: a gattserverdisconnected event is queued
  fourCharListeners, \* 'characteristicvaluechanged' listeners on the session's characteristic
  fourDevListeners,  \* 'gattserverdisconnected' listeners on the device object
  fourFn,         \* the connectToDevice call that captured the handleNotifications
                  \* of the current render (0: no call did)
  fourPc,         \* connectToDevice in flight: the await it is suspended at
  fourDpc,        \* disconnectDevice in flight: the await it is suspended at
  fourDiscDone    \* history: disconnectDevice has completed and connectToDevice
                  \* has not been called since

fiveVars == <<devices, isScanning, globalStatus, isRecording, recordedData,
              gattConnected, pendingDisc, devListeners, charListeners,
              cpc, cH, dpc, dSnap, downloads, gattIds, discDone>>

transportVars == <<gattConnected, pendingDisc, devListeners, charListeners>>
procVars == <<cpc, cH, dpc, dSnap>>
recVars == <<isRecording, recordedData>>

\* ======================================================= approach two
\* The single-device Nordic UART page (src/app/routes/approach-two.tsx).

\* A characteristic of the service: its uuid and the properties the page reads.
Char(uuid, notify, read) == [uuid |-> uuid, notify |-> notify, read |-> read]
NoChar == [uuid |-> None, notify |-> FALSE, read |-> FALSE]

RX_CHARACTERISTIC_UUID == "6e400002"
TX_CHARACTERISTIC_UUID == "6e400003"
OtherUuid == "2a19"
Uuids == {RX_CHARACTERISTIC_UUID, TX_CHARACTERISTIC_UUID, OtherUuid}

\* The lists service.getCharacteristics() can resolve with: up to MaxChars
\* characteristics with different uuids.
Chars == {Char(u, n, r) : u \in Uuids, n \in BOOLEAN, r \in BOOLEAN}
CharLists ==
  {l \in UNION {[1..k -> Chars] : k \in 0..MaxChars} :
     \A i, j \in DOMAIN l : l[i].uuid = l[j].uuid => i = j}

\* setDataLogs(prev => [newLog, ...prev.slice(0, 99)])
LogCap == 100
Log(type, data) == [type |-> type, data |-> data]
\* Variant of addLog that keeps a hundred of the previous entries.
addLogKeepsHundred(logs, type, data) ==
  <<Log(type, data)>> \o SubSeq(logs, 1, IF Len(logs) < LogCap THEN Len(logs) ELSE LogCap)

addLog(logs, type, data) ==
  <<Log(type, data)>> \o SubSeq(logs, 1, IF Len(logs) < LogCap - 1 THEN Len(logs) ELSE LogCap - 1)

\* intervalRef.current: no timer yet, or the timer with whether it still runs
\* and the isConnected its callback closed over.
NoTimer == [set |-> FALSE, active |-> FALSE, isConnected |-> FALSE]
Timer(c) == [set |-> TRUE, active |-> TRUE, isConnected |-> c]

\* A handleCharacteristicValueChanged function object: the page creates a new
\* one in every render; it is told apart by the isConnected of its render.
Listener(c) == [attached |-> TRUE, isConnected |-> c]
NoListener == [attached |-> FALSE, isConnected |-> FALSE]

\* A connectToDevice call: the await it is suspended at and the isConnected of
\* the render it was called in.
Idle == [at |-> "idle", isConnected |-> FALSE]
At(pc, c) == [at |-> pc, isConnected |-> c]

\* A pending startNotifications() promise, with the isConnected of the render
\* whose handleCharacteristicValueChanged its continuation adds.
NotPending == [pending |-> FALSE, isConnected |-> FALSE]
Pending(c) == [pending |-> TRUE, isConnected |-> c]

twoStateNoLogs == <<twoDevice, isConnected, twoIsScanning, error, isReading>>
twoState == <<twoStateNoLogs, dataLogs>>
twoRefs == <<characteristicRef, intervalRef>>
twoTransport == <<linkUp, valueListener, advListeners>>
twoProc == <<tpc, notifPending, readsInFlight>>
twoVars == <<isSupported, twoState, twoRefs, twoTransport, twoProc>>

\* The useState and useRef defaults, with nothing connected.
TwoPage ==
  /\ twoDevice = FALSE
  /\ isConnected = FALSE
  /\ twoIsScanning = FALSE
  /\ dataLogs = <<>>
  /\ error = ""
  /\ isReading = FALSE
  /\ characteristicRef = NoChar
  /\ intervalRef = NoTimer
  /\ linkUp = FALSE
  /\ valueListener = NoListener
  /\ advListeners = 0
  /\ tpc = Idle
  /\ notifPending = NotPending
  /\ readsInFlight = 0

\* The page after its mount effect in a browser with Web Bluetooth.
TwoIdle == TwoPage /\ isSupported = TRUE



\* ------------------------------------------------------------ registry
\* A handler closure created by one connectToDevice call: the deviceId and the
\* handleNotifications (with its isRecording) the call closed over; n tells the
\* closures of different calls apart.  NoHandler: `undefined`.
Handler(d, n, rec) == [deviceId |-> d, n |-> n, rec |-> rec]
NoHandler == [deviceId |-> None, n |-> 0, rec |-> FALSE]

\* IMUData is a function from the keys that are set to their values;
\* NoIMU is `undefined` / `null` (a record always has its Timestamp).
NoIMU == [k \in {} |-> 0]

\* interface ExtendedBluetoothDeviceInfo, as scanForDevices builds it.
\* `characteristic` holds the closure number of the call that obtained it.
NewDeviceInfo(d) ==
  [id |-> d, connected |-> FALSE, isConnecting |-> FALSE,
   characteristic |-> NoHandler, notificationHandler |-> NoHandler,
   disconnectHandler |-> NoHandler, imuData |-> NoIMU, connectionError |-> None]

Has(devs, d) == \E i \in DOMAIN devs : devs[i].id = d

\* devices.find(d => d.id === deviceId): the first match (when there is one).
Find(devs, d) ==
  devs[CHOOSE i \in DOMAIN devs :
         /\ devs[i].id = d
         /\ \A j \in DOMAIN devs : devs[j].id = d => i <= j]

\* prev.filter(d => d.id !== deviceId)
RECURSIVE Without(_, _)
Without(devs, d) ==
  IF devs = <<>> THEN <<>>
  ELSE IF Head(devs).id = d THEN Without(Tail(devs), d)
       ELSE <<Head(devs)>> \o Without(Tail(devs), d)

\* ===================================================== approach three
\* The battery monitor for up to four devices
\* (src/app/routes/approach-three.tsx).
threeVars == <<threeDevices, threeIsScanning, threeError, threeLink, threeHandlers, threePc>>

\* The devices the chooser of approach three can return.
ThreeIds == {"e1", "e2", "e3", "e4", "e5"}

\* A connectDevice call: the await it is suspended at, the ids of the `devices`
\* it closed over and the device the chooser returned.
ThreeIdle == [at |-> "idle", snapshot |-> {}, device |-> None]

\* The useState defaults, with nothing connected.
ThreePage ==
  /\ threeDevices = <<>>
  /\ threeIsScanning = FALSE
  /\ threeError = ""
  /\ threeLink = [d \in ThreeIds |-> FALSE]
  /\ threeHandlers = [d \in ThreeIds |-> FALSE]
  /\ threePc = ThreeIdle

\* ====================================================== approach four
\* The single-device IMU page (src/app/routes/approach-four.tsx).
fourReact == <<fourImuData, fourError, fourIsConnected, fourDevice, fourCharacteristic>>
fourTransport == <<fourLink, fourPendingDisc, fourCharListeners, fourDevListeners>>
fourProc == <<fourPc, fourDpc>>
fourVars == <<fourReact, fourTransport, fourFn, fourProc, fourDiscDone>>

\* Closures (handleNotifications / handleDeviceDisconnect pairs) that can be
\* alive at once.
MaxFourHandlers == 2
FourNums == 1..MaxFourHandlers

\* A connectToDevice call: the await it is suspended at and the number of the
\* handleNotifications it closed over.
FourIdle == [at |-> "idle", n |-> 0]
FourAt(pc, n) == [at |-> pc, n |-> n]

\* The useState defaults, with nothing connected.
FourPage ==
  /\ fourImuData = NoIMU
  /\ fourError = None
  /\ fourIsConnected = FALSE
  /\ fourDevice = FALSE
  /\ fourCharacteristic = FALSE
  /\ fourLink = FALSE
  /\ fourPendingDisc = FALSE
  /\ fourCharListeners = {}
  /\ fourDevListeners = {}
  /\ fourFn = 0
  /\ fourPc = FourIdle
  /\ fourDpc = FourIdle
  /\ fourDiscDone = FALSE

vars == <<fiveVars, twoVars, threeVars, fourVars>>

\* ----------------------------------------------------- telemetry decoder
\* A payload is the decoded text as its sequence of space-separated tokens
\* `label:value`.  label is the sequence of characters before the colon; num
\* tells whether a number ([-]digits[.digits]) follows the colon (and optional
\* blanks), val is that number's text, pct whether a '%' follows the number.
Tok(l, n, v, p) == [label |-> l, num |-> n, val |-> v, pct |-> p]

\* The text of a number: sign, integer digits, fraction digit (NoFrac: none).
NoFrac == -1
Num(neg, int, frac) == [neg |-> neg, int |-> int, frac |-> frac]

\* parseFloat(match[2]); values are kept in tenths.
parseFloat(x) ==
  LET m == x.int * 10 + (IF x.frac = NoFrac THEN 0 ELSE x.frac)
  IN IF x.neg THEN 0 - m ELSE m

\* parseInt(batteryMatch[1], 10), in tenths like every value.
parseInt(x) == x.int * 10

keyMap ==
  (<<"A", "X">> :> "accX") @@ (<<"A", "Y">> :> "accY") @@ (<<"A", "Z">> :> "accZ") @@
  (<<"G", "X">> :> "gyrX") @@ (<<"G", "Y">> :> "gyrY") @@ (<<"G", "Z">> :> "gyrZ") @@
  (<<"M", "X">> :> "magX") @@ (<<"M", "Y">> :> "magY") @@ (<<"M", "Z">> :> "magZ")

imuKeys == {"accX", "accY", "accZ", "gyrX", "gyrY", "gyrZ", "magX", "magY", "magZ"}

\* parsed[key] = value
Put(parsed, key, value) ==
  [k \in DOMAIN parsed \cup {key} |-> IF k = key THEN value ELSE parsed[k]]

\* [A-Z] over the characters the payloads are written in.
Capitals == {"A", "B", "G", "L", "M", "X", "Y", "Z"}

\* The last n characters of a label (the whole label when it is shorter).
Suffix(l, n) == SubSeq(l, IF Len(l) > n THEN Len(l) - n + 1 ELSE 1, Len(l))

\* /([A-Z]{2}):\s*([-]?\d+(?:\.\d+)?)/g finds a match in the token: the two
\* characters before the colon are capitals and a number follows the colon.
\* match[1] is those two characters.
AxisMatch(t) ==
  /\ Len(t.label) >= 2
  /\ \A i \in {Len(t.label) - 1, Len(t.label)} : t.label[i] \in Capitals
  /\ t.num

\* /Battery:\s*(\d+)%/ finds a match in the token: "Battery" stands right
\* before the colon, and unsigned digits directly followed by '%' come after it.
BatteryWord == <<"B", "a", "t", "t", "e", "r", "y">>
BatteryMatch(t) ==
  /\ Suffix(t.label, Len(BatteryWord)) = BatteryWord
  /\ t.num /\ ~t.val.neg /\ t.val.frac = NoFrac /\ t.pct

\* The matchAll loop: a later match of the same label overwrites an earlier one.
RECURSIVE ParseAxes(_, _)
ParseAxes(toks, parsed) ==
  IF toks = <<>> THEN parsed
  ELSE LET t == Head(toks)
           next == IF AxisMatch(t) /\ Suffix(t.label, 2) \in DOMAIN keyMap
                   THEN Put(parsed, keyMap[Suffix(t.label, 2)], parseFloat(t.val))
                   ELSE parsed
       IN ParseAxes(Tail(toks), next)

\* dataStr.match(...): the first battery match.
HasBattery(toks) == \E i \in DOMAIN toks : BatteryMatch(toks[i])
FirstBattery(toks) ==
  toks[CHOOSE i \in DOMAIN toks :
         /\ BatteryMatch(toks[i])
         /\ \A j \in DOMAIN toks : BatteryMatch(toks[j]) => i <= j].val

parseIMUString(toks) ==
  LET axes == ParseAxes(toks, NoIMU)
      parsed == IF HasBattery(toks)
                THEN Put(axes, "Battery", parseInt(FirstBattery(toks)))
                ELSE axes
      hasIMUData == \E k \in imuKeys : k \in DOMAIN parsed
  IN IF ~hasIMUData /\ "Battery" \notin DOMAIN parsed THEN NoIMU
     ELSE Put(parsed, "Timestamp", 0)

\* A word that is no number.
NoNum == Num(FALSE, 0, NoFrac)

\* The notification payloads a device sends: "AX:1" and "hello:x".
Payloads ==
  { <<Tok(<<"A", "X">>, TRUE, Num(FALSE, 1, NoFrac), FALSE)>>,
    <<Tok(<<"h", "e", "l", "l", "o">>, FALSE, NoNum, FALSE)>> }

\* ------------------------------------------------------------ CSV export
\* const headers: the fixed column order.
headers ==
  <<"Timestamp", "accX", "accY", "accZ", "gyrX", "gyrY", "gyrZ",
    "magX", "magY", "magZ", "Battery">>

\* headers.filter(header => data.some(row => row[header] !== undefined && ...))
RECURSIVE ActiveHeaders(_, _)
ActiveHeaders(hs, data) ==
  IF hs = <<>> THEN <<>>
  ELSE (IF \E i \in DOMAIN data : Head(hs) \in DOMAIN data[i]
        THEN <<Head(hs)>> ELSE <<>>) \o ActiveHeaders(Tail(hs), data)

\* A field of a row: the value's text, or the empty string.
Cell(v) == [empty |-> FALSE, val |-> v]
EmptyCell == [empty |-> TRUE, val |-> 0]

\* Variant of CsvRow that writes a zero for a missing value.
CsvRowZeroFill(activeHeaders, d) ==
  [j \in DOMAIN activeHeaders |->
     IF activeHeaders[j] \in DOMAIN d THEN Cell(d[activeHeaders[j]]) ELSE Cell(0)]

\* activeHeaders.map(header => value !== undefined ? value : ''): the fields
\* that join(',') separates by commas.
CsvRow(activeHeaders, d) ==
  [j \in DOMAIN activeHeaders |->
     IF activeHeaders[j] \in DOMAIN d THEN Cell(d[activeHeaders[j]]) ELSE EmptyCell]

\* The CSV text, as its lines (the header row, then one row per sample), each
\* line as the fields between its commas.  NoCSV: the empty string.
NoCSV == [headerRow |-> <<>>, rows |-> <<>>]
generateCSV(data) ==
  IF data = <<>> THEN NoCSV
  ELSE LET activeHeaders == ActiveHeaders(headers, data)
       IN [headerRow |-> activeHeaders,
           rows |-> [i \in DOMAIN data |-> CsvRow(activeHeaders, data[i])]]

\* ------------------------------------------------------- state patches
\* connectToDevice, first setDevices.
ConnectStartPatch(e) ==
  [e EXCEPT !.isConnecting = TRUE, !.connectionError = None, !.imuData = NoIMU]

\* connectToDevice, device missing from the snapshot.
NotFoundPatch(e) ==
  [e EXCEPT !.isConnecting = FALSE, !.connectionError = ErrNotFound]

\* Variant of UpdConnectFailed that does not record the error message.
UpdConnectFailedNoError(msg) ==
  [isConnecting |-> FALSE, connected |-> FALSE]

\* updatedDeviceState, by how the attempt ended (a record of the keys it has).
UpdConnectFailed(msg) ==
  [isConnecting |-> FALSE, connected |-> FALSE, connectionError |-> msg]

\* Variant of UpdIMUFailed that reports the attempt as not connected.
UpdIMUFailedNotConnected ==
  [isConnecting |-> FALSE, connected |-> FALSE, connectionError |-> ErrIMU]

\* updatedDeviceState after the inner catch (imuError).
UpdIMUFailed ==
  [isConnecting |-> FALSE, connected |-> TRUE, connectionError |-> ErrIMU]

UpdIMUReady(h) ==
  [isConnecting |-> FALSE, connected |-> TRUE, characteristic |-> h,
   notificationHandler |-> h, disconnectHandler |-> h]

\* finally: { ...d, ...updatedDeviceState, isConnecting: false }
ConnectFinalPatch(e, upd) ==
  [k \in DOMAIN e |->
     IF k = "isConnecting" THEN FALSE
     ELSE IF k \in DOMAIN upd THEN upd[k] ELSE e[k]]

\* Variant of DisconnectPatch that leaves isConnecting as it is.
DisconnectPatchKeepsConnecting(e) ==
  [e EXCEPT !.connected = FALSE, !.characteristic = NoHandler,
            !.notificationHandler = NoHandler, !.disconnectHandler = NoHandler,
            !.imuData = NoIMU]

\* disconnectDevice, final setDevices.
DisconnectPatch(e) ==
  [e EXCEPT !.connected = FALSE, !.characteristic = NoHandler,
            !.notificationHandler = NoHandler, !.disconnectHandler = NoHandler,
            !.imuData = NoIMU, !.isConnecting = FALSE]

\* Variant of UnexpectedPatch that always writes the disconnect notice.
UnexpectedPatchOverwrites(e) ==
  [e EXCEPT !.connected = FALSE, !.characteristic = NoHandler,
            !.notificationHandler = NoHandler, !.disconnectHandler = NoHandler,
            !.imuData = NoIMU,
            !.connectionError = ErrUnexpected,
            !.isConnecting = FALSE]

\* specificDeviceDisconnectHandler's setDevices.
UnexpectedPatch(e) ==
  [e EXCEPT !.connected = FALSE, !.characteristic = NoHandler,
            !.notificationHandler = NoHandler, !.disconnectHandler = NoHandler,
            !.imuData = NoIMU,
            !.connectionError = IF @ = None THEN ErrUnexpected ELSE @,
            !.isConnecting = FALSE]

\* handleNotifications, a payload that decodes to a record.
ParsedPatch(e, parsedData) ==
  [e EXCEPT !.imuData = parsedData, !.connectionError = None]

\* Variant of ParseFailedPatch that also drops the last record.
ParseFailedPatchDropsData(e) ==
  [e EXCEPT !.connectionError = IF e.connected THEN ErrParse ELSE @,
            !.imuData = NoIMU]

\* handleNotifications, a payload that decodes to no record.
ParseFailedPatch(e) ==
  [e EXCEPT !.connectionError = IF e.connected THEN ErrParse ELSE @]

\* The updaters the page passes to setDevices, by name; arg is the value the
\* updater closes over (updatedDeviceState, parsedData), NoArg when it has none.
NoArg == NoIMU
Patch(kind, e, arg) ==
  CASE kind = "connectStart" -> ConnectStartPatch(e)
    [] kind = "notFound" -> NotFoundPatch(e)
    [] kind = "connectFinal" -> ConnectFinalPatch(e, arg)
    [] kind = "disconnect" -> DisconnectPatch(e)
    [] kind = "unexpected" -> UnexpectedPatch(e)
    [] kind = "parsed" -> ParsedPatch(e, arg)
    [] kind = "parseFailed" -> ParseFailedPatch(e)

\* Variant of MapById that patches every entry.
MapEvery(devs, d, kind, arg) ==
  [i \in DOMAIN devs |-> Patch(kind, devs[i], arg)]

\* prev.map(d => d.id === deviceId ? patch(d) : d)
MapById(devs, d, kind, arg) ==
  [i \in DOMAIN devs |->
     IF devs[i].id = d THEN Patch(kind, devs[i], arg) ELSE devs[i]]

\* ---------------------------------------------------------------- Init
\* The state after the component's first render (the useState defaults),
\* with no device connected at the transport.
FivePage ==
  /\ devices = <<>>
  /\ isScanning = FALSE
  /\ globalStatus = StReady
  /\ isRecording = FALSE
  /\ recordedData = [d \in DeviceIds |-> <<>>]
  /\ gattConnected = [d \in DeviceIds |-> FALSE]
  /\ pendingDisc = [d \in DeviceIds |-> FALSE]
  /\ devListeners = [d \in DeviceIds |-> {}]
  /\ charListeners = [d \in DeviceIds |-> {}]
  /\ cpc = [d \in DeviceIds |-> "idle"]
  /\ cH = [d \in DeviceIds |-> NoHandler]
  /\ dpc = [d \in DeviceIds |-> "idle"]
  /\ dSnap = [d \in DeviceIds |-> [nh |-> NoHandler, dh |-> NoHandler]]
  /\ discDone = [d \in DeviceIds |-> FALSE]
  /\ downloads = [d \in DeviceIds |-> NoCSV]

InitPage == FivePage /\ TwoIdle /\ ThreePage /\ FourPage

\* One device with a GATT server and one without.
Init == InitPage /\ gattIds = {"d1"}

\* Every device has a GATT server.
InitPair == InitPage /\ gattIds = DeviceIds

\* ------------------------------------------------------- scanForDevices
\* Variant of AddOrMerge without the existingDevice check.
AddAlways(prevDevices, d) == Append(prevDevices, NewDeviceInfo(d))

\* The setDevices updater of scanForDevices: add, or leave the list alone.
AddOrMerge(prevDevices, d) ==
  IF Has(prevDevices, d) THEN prevDevices
  ELSE Append(prevDevices, NewDeviceInfo(d))

\* The call up to `await navigator.bluetooth.requestDevice(...)`; without
\* navigator.bluetooth it throws and runs its catch and finally at once.
ScanCall ==
  /\ ~isScanning
  /\ \E supported \in BOOLEAN :
       IF supported
       THEN isScanning' = TRUE /\ globalStatus' = StRequesting
       ELSE isScanning' = FALSE /\ globalStatus' = StScanError
  /\ UNCHANGED <<twoVars, threeVars, fourVars, downloads, gattIds, discDone, devices, recVars, transportVars, procVars>>

\* Variant of ScanResolve that appends to the `devices` the callback closed
\* over (the empty list of the first render) instead of using an updater.
ScanResolveStale(d) ==
  /\ isScanning
  /\ devices' = Append(<<>>, NewDeviceInfo(d))
  /\ globalStatus' = StAdded
  /\ isScanning' = FALSE
  /\ UNCHANGED <<twoVars, threeVars, fourVars, downloads, gattIds, discDone, recVars, transportVars, procVars>>

\* The chooser resolves with device d.
ScanResolve(d) ==
  /\ isScanning
  /\ devices' = AddOrMerge(devices, d)
  /\ globalStatus' = IF Has(devices, d) THEN StAlready ELSE StAdded
  /\ isScanning' = FALSE
  /\ UNCHANGED <<twoVars, threeVars, fourVars, downloads, gattIds, discDone, recVars, transportVars, procVars>>

\* Variant of ScanReject without the finally block.
ScanRejectNoFinally ==
  /\ isScanning
  /\ globalStatus' = StScanError
  /\ UNCHANGED <<twoVars, threeVars, fourVars, downloads, gattIds, discDone, isScanning, devices, recVars, transportVars, procVars>>

\* The chooser rejects (cancelled, or no device found).
ScanReject ==
  /\ isScanning
  /\ globalStatus' = StScanError
  /\ isScanning' = FALSE
  /\ UNCHANGED <<twoVars, threeVars, fourVars, downloads, gattIds, discDone, devices, recVars, transportVars, procVars>>

\* ------------------------------------------------------ connectToDevice
\* Closure numbers device d still refers to somewhere.
UsedNums(d) ==
  {h.n : h \in devListeners[d] \cup charListeners[d]}
    \cup {cH[d].n, dSnap[d].nh.n, dSnap[d].dh.n}
    \cup (IF Has(devices, d)
          THEN {Find(devices, d).notificationHandler.n,
                Find(devices, d).disconnectHandler.n}
          ELSE {})

FreeNums(d) == HandlerNums \ UsedNums(d)
FreshNum(d) == CHOOSE n \in FreeNums(d) : \A m \in FreeNums(d) : n <= m

\* Variant of ConnectFinish that writes the result even when the entry is gone.
ConnectFinishUpsert(d, upd, status) ==
  /\ devices' = IF Has(devices, d)
                THEN MapById(devices, d, "connectFinal", upd)
                ELSE Append(devices, ConnectFinalPatch(NewDeviceInfo(d), upd))
  /\ globalStatus' = status
  /\ cpc' = [cpc EXCEPT ![d] = "idle"]
  /\ cH' = [cH EXCEPT ![d] = NoHandler]

\* finally { setDevices(...) } with the attempt's updatedDeviceState.
ConnectFinish(d, upd, status) ==
  /\ devices' = MapById(devices, d, "connectFinal", upd)
  /\ globalStatus' = status
  /\ cpc' = [cpc EXCEPT ![d] = "idle"]
  /\ cH' = [cH EXCEPT ![d] = NoHandler]

\* connectToDevice(d) for an id that is not in the `devices` it closed over:
\* both setDevices calls map over a list without d.
ConnectCallUnknown(d) ==
  /\ ~Has(devices, d)
  /\ devices' = MapById(MapById(devices, d, "connectStart", NoArg), d, "notFound", NoArg)
  /\ globalStatus' = StNotFound
  /\ discDone' = [discDone EXCEPT ![d] = FALSE]
  /\ UNCHANGED <<twoVars, threeVars, fourVars, downloads, gattIds, isScanning, recVars, transportVars, procVars>>

\* connectToDevice(d) from the Connect button (shown when the entry is neither
\* connected nor connecting), up to `await bleDevice.gatt.connect()`; a device
\* without a GATT server throws at once.  One call per device is in flight.
ConnectCall(d) ==
  /\ Has(devices, d)
  /\ ~Find(devices, d).connected /\ ~Find(devices, d).isConnecting
  /\ cpc[d] = "idle"
  /\ FreeNums(d) # {}
  /\ IF d \in gattIds
     THEN /\ devices' = MapById(devices, d, "connectStart", NoArg)
          /\ globalStatus' = StConnecting
          /\ cpc' = [cpc EXCEPT ![d] = "gattConnect"]
          /\ cH' = [cH EXCEPT ![d] = Handler(d, FreshNum(d), isRecording)]
     ELSE /\ devices' = MapById(MapById(devices, d, "connectStart", NoArg), d,
                                "connectFinal", UpdConnectFailed(ErrNoGatt))
          /\ globalStatus' = StConnFailed
          /\ UNCHANGED <<cpc, cH>>
  /\ discDone' = [discDone EXCEPT ![d] = FALSE]
  /\ UNCHANGED <<twoVars, threeVars, fourVars, downloads, gattIds, isScanning, recVars, transportVars, dpc, dSnap>>

\* gatt.connect() resolves: the transport is connected.  A connection that
\* is newly made starts a new session with fresh GATT attribute objects; it is
\* made only after the previous session's disconnect event was dispatched.
ConnectGattResolve(d) ==
  /\ cpc[d] = "gattConnect"
  /\ ~pendingDisc[d]
  /\ gattConnected' = [gattConnected EXCEPT ![d] = TRUE]
  /\ charListeners' = [charListeners EXCEPT ![d] = IF gattConnected[d] THEN @ ELSE {}]
  /\ cpc' = [cpc EXCEPT ![d] = "optional"]
  /\ UNCHANGED <<twoVars, threeVars, fourVars, downloads, gattIds, discDone, devices, isScanning, globalStatus, recVars, pendingDisc,
                 devListeners, cH, dpc, dSnap>>

\* gatt.connect() rejects: the outer catch, then finally.
ConnectGattReject(d) ==
  /\ cpc[d] = "gattConnect"
  /\ ~gattConnected[d]
  /\ ConnectFinish(d, UpdConnectFailed(ErrConnect), StConnFailed)
  /\ UNCHANGED <<twoVars, threeVars, fourVars, downloads, gattIds, discDone, isScanning, recVars, transportVars, dpc, dSnap>>

\* Variant of ConnectOptional that connects again after the optional reads.
ConnectOptionalRetries(d) ==
  /\ cpc[d] = "optional"
  /\ cpc' = [cpc EXCEPT ![d] = "gattConnect"]
  /\ UNCHANGED <<twoVars, threeVars, fourVars, downloads, gattIds, discDone, devices, isScanning, globalStatus, recVars, transportVars,
                 cH, dpc, dSnap>>

\* The battery and service-list reads: their awaits end, failures are swallowed.
ConnectOptional(d) ==
  /\ cpc[d] = "optional"
  /\ cpc' = [cpc EXCEPT ![d] = "imuService"]
  /\ UNCHANGED <<twoVars, threeVars, fourVars, downloads, gattIds, discDone, devices, isScanning, globalStatus, recVars, transportVars,
                 cH, dpc, dSnap>>

\* server.getPrimaryService(SERVICE_UUID) resolves (only while connected).
ImuServiceResolve(d) ==
  /\ cpc[d] = "imuService"
  /\ gattConnected[d]
  /\ cpc' = [cpc EXCEPT ![d] = "imuChar"]
  /\ UNCHANGED <<twoVars, threeVars, fourVars, downloads, gattIds, discDone, devices, isScanning, globalStatus, recVars, transportVars,
                 cH, dpc, dSnap>>

\* imuService.getCharacteristic(CHARACTERISTIC_UUID) resolves: the handlers are
\* created and the disconnect handler is registered, up to
\* `await char.startNotifications()`.
ImuCharResolve(d) ==
  /\ cpc[d] = "imuChar"
  /\ gattConnected[d]
  /\ devListeners' = [devListeners EXCEPT ![d] = @ \cup {cH[d]}]
  /\ cpc' = [cpc EXCEPT ![d] = "startNotif"]
  /\ UNCHANGED <<twoVars, threeVars, fourVars, downloads, gattIds, discDone, devices, isScanning, globalStatus, recVars, gattConnected,
                 pendingDisc, charListeners, cH, dpc, dSnap>>

\* startNotifications() resolves: the notification listener is attached and the
\* attempt ends with the characteristic and both handlers in its result.
StartNotifResolve(d) ==
  /\ cpc[d] = "startNotif"
  /\ gattConnected[d]
  /\ charListeners' = [charListeners EXCEPT ![d] = @ \cup {cH[d]}]
  /\ ConnectFinish(d, UpdIMUReady(cH[d]), StIMUReady)
  /\ UNCHANGED <<twoVars, threeVars, fourVars, downloads, gattIds, discDone, isScanning, recVars, gattConnected, pendingDisc, devListeners,
                 dpc, dSnap>>

\* getPrimaryService, getCharacteristic or startNotifications rejects (the
\* service is missing, or the link is gone): the inner catch, then finally.
ImuReject(d) ==
  /\ cpc[d] \in {"imuService", "imuChar", "startNotif"}
  /\ ConnectFinish(d, UpdIMUFailed, StIMUFailed)
  /\ UNCHANGED <<twoVars, threeVars, fourVars, downloads, gattIds, discDone, isScanning, recVars, transportVars, dpc, dSnap>>

\* ----------------------------------------------------- disconnectDevice
\* deviceToDisconnect && deviceToDisconnect.deviceObject && deviceObject.gatt
DiscHasGatt(d) == Has(devices, d) /\ d \in gattIds

\* characteristic && bleDevice.gatt?.connected: the call awaits stopNotifications.
DiscAwaits(d) ==
  /\ DiscHasGatt(d)
  /\ Find(devices, d).characteristic # NoHandler
  /\ gattConnected[d]

\* Variant of RemoveDevListener that leaves the listener attached.
RemoveDevListenerKeeps(d, dh) == devListeners

\* bleDevice.removeEventListener('gattserverdisconnected', disconnectHandler)
RemoveDevListener(d, dh) == [devListeners EXCEPT ![d] = @ \ {dh}]

\* characteristic.removeEventListener('characteristicvaluechanged', notificationHandler)
RemoveCharListener(d, nh) == [charListeners EXCEPT ![d] = @ \ {nh}]

\* if (bleDevice.gatt?.connected) bleDevice.gatt.disconnect(): the link is
\* dropped and the transport queues the device's gattserverdisconnected event.
GattDisconnect(d) ==
  /\ gattConnected' = [gattConnected EXCEPT ![d] = FALSE]
  /\ pendingDisc' = [pendingDisc EXCEPT ![d] = @ \/ gattConnected[d]]

\* The part of disconnectDevice that touches the transport when it does not
\* await: the snapshot's disconnect handler is removed, the link is closed.
DiscSyncTransport(d) ==
  IF DiscHasGatt(d)
  THEN /\ devListeners' = RemoveDevListener(d, Find(devices, d).disconnectHandler)
       /\ GattDisconnect(d)
       /\ UNCHANGED charListeners
  ELSE UNCHANGED transportVars

\* The call is suspended at `await characteristic.stopNotifications()`.
DiscSuspend(d) ==
  /\ dpc' = [dpc EXCEPT ![d] = "stopNotif"]
  /\ dSnap' = [dSnap EXCEPT ![d] =
                 [nh |-> Find(devices, d).notificationHandler,
                  dh |-> Find(devices, d).disconnectHandler]]

\* disconnectDevice(d), called for any id (one call per device is in flight).
DisconnectCall(d) ==
  /\ dpc[d] = "idle"
  /\ IF DiscAwaits(d)
     THEN /\ DiscSuspend(d)
          /\ globalStatus' = StDisconnecting
          /\ UNCHANGED <<devices, transportVars, discDone>>
     ELSE /\ DiscSyncTransport(d)
          /\ devices' = MapById(devices, d, "disconnect", NoArg)
          /\ globalStatus' = StDisconnected
          /\ discDone' = [discDone EXCEPT ![d] = TRUE]
          /\ UNCHANGED <<dpc, dSnap>>
  /\ UNCHANGED <<twoVars, threeVars, fourVars, downloads, gattIds, isScanning, recVars, cpc, cH>>

\* stopNotifications() resolves or rejects (the catch swallows it): the rest of
\* the call runs to its end.
DisconnectResume(d) ==
  /\ dpc[d] = "stopNotif"
  /\ \E stopped \in BOOLEAN :
       /\ charListeners' = RemoveCharListener(d, dSnap[d].nh)
       /\ devListeners' = RemoveDevListener(d, dSnap[d].dh)
       /\ GattDisconnect(d)
  /\ devices' = MapById(devices, d, "disconnect", NoArg)
  /\ globalStatus' = StDisconnected
  /\ dpc' = [dpc EXCEPT ![d] = "idle"]
  /\ dSnap' = [dSnap EXCEPT ![d] = [nh |-> NoHandler, dh |-> NoHandler]]
  /\ discDone' = [discDone EXCEPT ![d] = TRUE]
  /\ UNCHANGED <<twoVars, threeVars, fourVars, downloads, gattIds, isScanning, recVars, cpc, cH>>

\* --------------------------------------------------------- removeDevice
\* removeDevice(d): disconnectDevice(d) is called (not awaited) for a connected
\* entry, then the entry is filtered out.
RemoveDevice(d) ==
  /\ (Has(devices, d) /\ Find(devices, d).connected) => dpc[d] = "idle"
  /\ IF Has(devices, d) /\ Find(devices, d).connected
     THEN IF DiscAwaits(d)
          THEN /\ DiscSuspend(d)
               /\ devices' = Without(devices, d)
               /\ UNCHANGED <<transportVars, discDone>>
          ELSE /\ DiscSyncTransport(d)
               /\ devices' = Without(MapById(devices, d, "disconnect", NoArg), d)
               /\ discDone' = [discDone EXCEPT ![d] = TRUE]
               /\ UNCHANGED <<dpc, dSnap>>
     ELSE /\ devices' = Without(devices, d)
          /\ UNCHANGED <<transportVars, dpc, dSnap, discDone>>
  /\ globalStatus' = StRemoved
  /\ UNCHANGED <<twoVars, threeVars, fourVars, downloads, gattIds, isScanning, recVars, cpc, cH>>

\* -------------------------------------------------- handleNotifications
\* One listener's handleNotifications(event, deviceId) with the isRecording it
\* closed over; the result is the pair <<devices, recordedData>>.
handleNotifications(devs, recd, deviceId, rec, payload) ==
  LET parsedData == parseIMUString(payload) IN
  IF parsedData # NoIMU
  THEN << MapById(devs, deviceId, "parsed", parsedData),
          IF rec THEN [recd EXCEPT ![deviceId] = Append(@, parsedData)] ELSE recd >>
  ELSE << MapById(devs, deviceId, "parseFailed", NoArg), recd >>

\* The event runs every listener attached to the characteristic.
RECURSIVE RunNotificationHandlers(_, _, _, _)
RunNotificationHandlers(hs, devs, recd, payload) ==
  IF hs = {} THEN <<devs, recd>>
  ELSE LET h == CHOOSE x \in hs : \A y \in hs : x.n <= y.n
           r == handleNotifications(devs, recd, h.deviceId, h.rec, payload)
       IN RunNotificationHandlers(hs \ {h}, r[1], r[2], payload)

\* A characteristicvaluechanged event of d's characteristic.
Notification(d, payload) ==
  /\ gattConnected[d]
  /\ charListeners[d] # {}
  /\ LET r == RunNotificationHandlers(charListeners[d], devices, recordedData, payload)
     IN /\ \A x \in DeviceIds : Len(r[2][x]) <= MaxRecorded
        /\ devices' = r[1]
        /\ recordedData' = r[2]
  /\ UNCHANGED <<twoVars, threeVars, fourVars, downloads, gattIds, discDone, isScanning, globalStatus, isRecording, transportVars, procVars>>

\* ------------------------------------------------------------ transport
\* The link to d is lost; the transport queues gattserverdisconnected.
TransportLoss(d) ==
  /\ gattConnected[d]
  /\ gattConnected' = [gattConnected EXCEPT ![d] = FALSE]
  /\ pendingDisc' = [pendingDisc EXCEPT ![d] = TRUE]
  /\ UNCHANGED <<twoVars, threeVars, fourVars, downloads, gattIds, discDone, devices, isScanning, globalStatus, recVars, devListeners,
                 charListeners, procVars>>

\* Variant of RunDisconnectHandlers whose patch ignores the entry's id.
RunDisconnectHandlersAnyId(hs, devs) ==
  IF hs = {} THEN devs
  ELSE [i \in DOMAIN devs |-> UnexpectedPatch(devs[i])]

\* specificDeviceDisconnectHandler's setDevices, for every listener that runs.
RECURSIVE RunDisconnectHandlers(_, _)
RunDisconnectHandlers(hs, devs) ==
  IF hs = {} THEN devs
  ELSE LET h == CHOOSE x \in hs : \A y \in hs : x.n <= y.n
       IN RunDisconnectHandlers(hs \ {h}, MapById(devs, h.deviceId, "unexpected", NoArg))

\* The gattserverdisconnected event of device d is dispatched: each listener on
\* d detaches its notification listener, patches its entry and detaches itself.
DispatchDisconnected(d) ==
  /\ pendingDisc[d]
  /\ pendingDisc' = [pendingDisc EXCEPT ![d] = FALSE]
  /\ devices' = RunDisconnectHandlers(devListeners[d], devices)
  /\ charListeners' = [charListeners EXCEPT ![d] = @ \ devListeners[d]]
  /\ devListeners' = [devListeners EXCEPT ![d] = {}]
  /\ UNCHANGED <<twoVars, threeVars, fourVars, downloads, gattIds, discDone, isScanning, globalStatus, recVars, gattConnected, procVars>>

\* ------------------------------------------------------------ recording
\* The record button is enabled while some entry is connected.
startRecording ==
  /\ ~isRecording
  /\ \E i \in DOMAIN devices : devices[i].connected
  /\ recordedData' = [d \in DeviceIds |-> <<>>]
  /\ isRecording' = TRUE
  /\ globalStatus' = StRecStarted
  /\ UNCHANGED <<twoVars, threeVars, fourVars, downloads, gattIds, discDone, devices, isScanning, transportVars, procVars>>

\* stopRecording: one CSV file is downloaded per device with a non-empty buffer.
stopRecording ==
  /\ isRecording
  /\ \E i \in DOMAIN devices : devices[i].connected
  /\ isRecording' = FALSE
  /\ downloads' = [d \in DeviceIds |->
                     IF Len(recordedData[d]) > 0 THEN generateCSV(recordedData[d])
                     ELSE downloads[d]]
  /\ globalStatus' = StRecStopped
  /\ UNCHANGED <<twoVars, threeVars, fourVars, gattIds, discDone, devices, isScanning, recordedData, transportVars, procVars>>

\* -------------------------------------------- connectToDevice (approach two)
\* connectToDevice() from the Connect button (shown while not connected, enabled
\* while not scanning), up to `await navigator.bluetooth.requestDevice(...)`.
\* The operations of an earlier session have settled.
TwoConnectCall ==
  /\ ~isConnected /\ ~twoIsScanning
  /\ tpc = Idle /\ ~notifPending.pending /\ readsInFlight = 0
  /\ Len(dataLogs) < MaxLogs
  /\ IF ~isSupported
     THEN /\ error' = "Web Bluetooth API is not supported in this browser"
          /\ UNCHANGED <<twoIsScanning, tpc>>
     ELSE /\ twoIsScanning' = TRUE
          /\ error' = ""
          /\ tpc' = At("requestDevice", isConnected)
  /\ UNCHANGED <<isSupported, twoDevice, isConnected, dataLogs, isReading, twoRefs,
                 twoTransport, notifPending, readsInFlight, fiveVars, threeVars, fourVars>>

\* The chooser resolves with the device; watch tells whether the device object
\* has watchAdvertisements.
TwoRequestResolve(watch) ==
  /\ tpc.at = "requestDevice"
  /\ watch => advListeners < MaxAdv
  /\ twoDevice' = TRUE
  /\ dataLogs' = addLog(dataLogs, "connection", "Found device")
  /\ tpc' = At(IF watch THEN "watchAdvertisements" ELSE "gattConnect", tpc.isConnected)
  /\ UNCHANGED <<isSupported, isConnected, twoIsScanning, error, isReading, twoRefs,
                 twoTransport, notifPending, readsInFlight, fiveVars, threeVars, fourVars>>

\* The outer catch and finally of connectToDevice.
TwoConnectFails(msg) ==
  /\ error' = msg
  /\ dataLogs' = addLog(dataLogs, "error", msg)
  /\ twoIsScanning' = FALSE
  /\ tpc' = Idle

\* The chooser rejects: NotFoundError, or another error.
TwoRequestReject(notFound) ==
  /\ tpc.at = "requestDevice"
  /\ TwoConnectFails(IF notFound THEN "No device found with Nordic UART Service"
                     ELSE "Error connecting")
  /\ UNCHANGED <<isSupported, twoDevice, isConnected, isReading, twoRefs, twoTransport,
                 notifPending, readsInFlight, fiveVars, threeVars, fourVars>>

\* device.watchAdvertisements() resolves (the advertisement listener is added)
\* or rejects (logged); the call goes on to `await device.gatt?.connect()`.
TwoWatchSettles(ok) ==
  /\ tpc.at = "watchAdvertisements"
  /\ advListeners' = IF ok THEN advListeners + 1 ELSE advListeners
  /\ dataLogs' = IF ok THEN addLog(dataLogs, "info", "Started watching for advertisements")
                 ELSE addLog(dataLogs, "error", "Cannot watch advertisements")
  /\ tpc' = At("gattConnect", tpc.isConnected)
  /\ UNCHANGED <<isSupported, twoDevice, isConnected, twoIsScanning, error, isReading,
                 twoRefs, linkUp, valueListener, notifPending, readsInFlight, fiveVars, threeVars, fourVars>>

\* gatt.connect() resolves: setIsConnected(true), then connectToNordicUartService
\* up to `await server.getPrimaryService(TARGET_SERVICE_UUID)`.  A new
\* connection starts a new session with fresh characteristic objects.
TwoGattResolve ==
  /\ tpc.at = "gattConnect"
  /\ linkUp' = TRUE
  /\ valueListener' = IF linkUp THEN valueListener ELSE NoListener
  /\ isConnected' = TRUE
  /\ dataLogs' = addLog(addLog(dataLogs, "connection", "Connected to GATT server"),
                        "info", "Looking for Nordic UART Service")
  /\ tpc' = At("getPrimaryService", tpc.isConnected)
  /\ UNCHANGED <<isSupported, twoDevice, twoIsScanning, error, isReading, twoRefs,
                 advListeners, notifPending, readsInFlight, fiveVars, threeVars, fourVars>>

\* gatt.connect() rejects.
TwoGattReject ==
  /\ tpc.at = "gattConnect"
  /\ ~linkUp
  /\ TwoConnectFails("Error connecting")
  /\ UNCHANGED <<isSupported, twoDevice, isConnected, isReading, twoRefs, twoTransport,
                 notifPending, readsInFlight, fiveVars, threeVars, fourVars>>

\* getPrimaryService resolves, up to `await service.getCharacteristics()`.
TwoServiceResolve ==
  /\ tpc.at = "getPrimaryService"
  /\ linkUp
  /\ dataLogs' = addLog(dataLogs, "connection", "Found Nordic UART Service")
  /\ tpc' = At("getCharacteristics", tpc.isConnected)
  /\ UNCHANGED <<isSupported, twoDevice, isConnected, twoIsScanning, error, isReading,
                 twoRefs, twoTransport, notifPending, readsInFlight, fiveVars, threeVars, fourVars>>

\* getPrimaryService or getCharacteristics rejects: the catch of
\* connectToNordicUartService, then the finally of connectToDevice.
TwoServiceReject ==
  /\ tpc.at \in {"getPrimaryService", "getCharacteristics"}
  /\ TwoConnectFails("Error accessing Nordic UART Service")
  /\ UNCHANGED <<isSupported, twoDevice, isConnected, isReading, twoRefs, twoTransport,
                 notifPending, readsInFlight, fiveVars, threeVars, fourVars>>

\* The test of the for loop: the RX uuid, or notify, or read.
Usable(c) == c.uuid = RX_CHARACTERISTIC_UUID \/ c.notify \/ c.read

\* The index at which the for loop returns (0: it runs to its end).
LoopExit(characteristics) ==
  IF \E i \in DOMAIN characteristics : Usable(characteristics[i])
  THEN CHOOSE i \in DOMAIN characteristics :
         /\ Usable(characteristics[i])
         /\ \A j \in DOMAIN characteristics : Usable(characteristics[j]) => i <= j
  ELSE 0

\* The characteristic connectToNordicUartService stores in characteristicRef.
SelectCharacteristic(characteristics) ==
  IF LoopExit(characteristics) # 0 THEN characteristics[LoopExit(characteristics)]
  ELSE IF Len(characteristics) > 0 THEN characteristics[1]
  ELSE NoChar

\* The log after n more "Characteristic: ..." entries.
RECURSIVE LogCharacteristics(_, _)
LogCharacteristics(logs, n) ==
  IF n = 0 THEN logs
  ELSE LogCharacteristics(addLog(logs, "info", "Characteristic"), n - 1)

\* Variant of startDataReading that starts the timer only when the
\* characteristic supports read and not notify.
startDataReadingFallbackOnly(logs, c) ==
  /\ intervalRef' = IF ~characteristicRef'.notify /\ characteristicRef'.read
                    THEN Timer(c) ELSE intervalRef
  /\ isReading' = TRUE
  /\ dataLogs' = addLog(logs, "info", "Starting data reading every 1 second...")
  /\ notifPending' = IF characteristicRef'.notify THEN Pending(c) ELSE notifPending

\* startDataReading(), called in a render whose isConnected is c, with the
\* characteristic just stored in characteristicRef: the old timer is replaced,
\* startNotifications() is requested when notify is supported.
startDataReading(logs, c) ==
  /\ intervalRef' = Timer(c)
  /\ isReading' = TRUE
  /\ dataLogs' = addLog(logs, "info", "Starting data reading every 1 second...")
  /\ notifPending' = IF characteristicRef'.notify THEN Pending(c) ELSE notifPending

\* getCharacteristics resolves; the rest of connectToNordicUartService and the
\* finally of connectToDevice.
TwoCharsResolve(characteristics) ==
  /\ tpc.at = "getCharacteristics"
  /\ linkUp
  /\ LET exit == LoopExit(characteristics)
         found == addLog(dataLogs, "info", "Found characteristics")
     IN IF exit # 0
        THEN /\ characteristicRef' = characteristics[exit]
             /\ startDataReading(addLog(LogCharacteristics(found, exit), "connection",
                                        "Using characteristic"), tpc.isConnected)
        ELSE IF Len(characteristics) > 0
        THEN /\ characteristicRef' = characteristics[1]
             /\ startDataReading(addLog(LogCharacteristics(found, Len(characteristics)),
                                        "connection", "Using first available characteristic"),
                                 tpc.isConnected)
        ELSE /\ dataLogs' = addLog(found, "error", "No characteristics found")
             /\ UNCHANGED <<characteristicRef, intervalRef, isReading, notifPending>>
  /\ twoIsScanning' = FALSE
  /\ tpc' = Idle
  /\ UNCHANGED <<isSupported, twoDevice, isConnected, error, twoTransport, readsInFlight,
                 fiveVars, threeVars, fourVars>>

\* startNotifications() resolves: the value listener is added to the
\* characteristic characteristicRef holds now (to none after a disconnect).
TwoNotifResolve ==
  /\ notifPending.pending
  /\ linkUp
  /\ dataLogs' = addLog(dataLogs, "connection", "Notifications enabled")
  /\ valueListener' = IF characteristicRef # NoChar THEN Listener(notifPending.isConnected)
                      ELSE valueListener
  /\ notifPending' = NotPending
  /\ UNCHANGED <<isSupported, twoStateNoLogs, twoRefs, linkUp, advListeners, tpc,
                 readsInFlight, fiveVars, threeVars, fourVars>>

\* startNotifications() rejects.
TwoNotifReject ==
  /\ notifPending.pending
  /\ dataLogs' = addLog(dataLogs, "error", "Error enabling notifications")
  /\ notifPending' = NotPending
  /\ UNCHANGED <<isSupported, twoStateNoLogs, twoRefs, twoTransport, tpc, readsInFlight,
                 fiveVars, threeVars, fourVars>>

\* ----------------------------------------------------- the poll timer
\* One tick of setInterval's callback, up to `await readValue()`; its
\* isConnected is the one the callback closed over.
TwoTick ==
  /\ intervalRef.active
  /\ IF characteristicRef # NoChar /\ intervalRef.isConnected
     THEN IF characteristicRef.read
          THEN /\ readsInFlight < MaxReads
               /\ readsInFlight' = readsInFlight + 1
               /\ UNCHANGED dataLogs
          ELSE /\ Len(dataLogs) < MaxLogs
               /\ dataLogs' = addLog(dataLogs, "info", "Characteristic doesn't support read")
               /\ UNCHANGED readsInFlight
     ELSE UNCHANGED <<dataLogs, readsInFlight>>
  /\ UNCHANGED <<isSupported, twoStateNoLogs, twoRefs, twoTransport, tpc, notifPending,
                 fiveVars, threeVars, fourVars>>

\* readValue() resolves: the value is logged as a 'read' (reading
\* characteristicRef.current.service throws once the ref is null: the catch).
TwoReadResolve ==
  /\ readsInFlight > 0
  /\ linkUp
  /\ readsInFlight' = readsInFlight - 1
  /\ dataLogs' = IF characteristicRef # NoChar THEN addLog(dataLogs, "read", "value")
                 ELSE addLog(dataLogs, "error", "Error reading")
  /\ UNCHANGED <<isSupported, twoStateNoLogs, twoRefs, twoTransport, tpc, notifPending,
                 fiveVars, threeVars, fourVars>>

\* readValue() rejects: the error is logged.
TwoReadReject ==
  /\ readsInFlight > 0
  /\ readsInFlight' = readsInFlight - 1
  /\ dataLogs' = addLog(dataLogs, "error", "Error reading")
  /\ UNCHANGED <<isSupported, twoStateNoLogs, twoRefs, twoTransport, tpc, notifPending,
                 fiveVars, threeVars, fourVars>>

\* ------------------------------------------------------------- events
\* handleCharacteristicValueChanged: a notification of the characteristic.
TwoNotification ==
  /\ linkUp
  /\ valueListener.attached
  /\ Len(dataLogs) < MaxLogs
  /\ dataLogs' = addLog(dataLogs, "notification", "value")
  /\ UNCHANGED <<isSupported, twoStateNoLogs, twoRefs, twoTransport, twoProc, fiveVars, threeVars, fourVars>>

\* The values a notification carries, as the handler renders them: the marked
\* one tells an entry of the log apart from the others.
Marked == "[TEXT] mark | [HEX] 6d 61 72 6b"
Values == {"[HEX] 00", Marked}

MarkedIn(logs) == Cardinality({i \in DOMAIN logs : logs[i].data = Marked})

\* handleCharacteristicValueChanged for a notification with the given value,
\* however long the log is.
TwoValueChanged(data) ==
  /\ linkUp
  /\ valueListener.attached
  /\ data = Marked => MarkedIn(dataLogs) < MaxMarked
  /\ dataLogs' = addLog(dataLogs, "notification", data)
  /\ UNCHANGED <<isSupported, twoStateNoLogs, twoRefs, twoTransport, twoProc, fiveVars, threeVars, fourVars>>

\* handleAdvertisement: an advertisementreceived event runs every listener.
RECURSIVE LogAdvertisements(_, _)
LogAdvertisements(logs, n) ==
  IF n = 0 THEN logs
  ELSE LogAdvertisements(addLog(logs, "advertising", "Device"), n - 1)

TwoAdvertisement ==
  /\ advListeners > 0
  /\ Len(dataLogs) < MaxLogs
  /\ dataLogs' = LogAdvertisements(dataLogs, advListeners)
  /\ UNCHANGED <<isSupported, twoStateNoLogs, twoRefs, twoTransport, twoProc, fiveVars, threeVars, fourVars>>

\* The link is lost; the page registers no gattserverdisconnected listener.
TwoTransportLoss ==
  /\ linkUp
  /\ linkUp' = FALSE
  /\ UNCHANGED <<isSupported, twoState, twoRefs, valueListener, advListeners, twoProc,
                 fiveVars, threeVars, fourVars>>

\* -------------------------------------------------- disconnect, clearLogs
\* disconnect() from the Disconnect button (shown while connected).  The
\* handlers it passes to removeEventListener are those of the current render.
disconnect ==
  /\ isConnected
  /\ intervalRef' = [intervalRef EXCEPT !.active = FALSE]
  /\ valueListener' = IF characteristicRef.notify /\ valueListener = Listener(isConnected)
                      THEN NoListener ELSE valueListener
  /\ linkUp' = IF twoDevice THEN FALSE ELSE linkUp
  /\ isConnected' = FALSE
  /\ isReading' = FALSE
  /\ twoDevice' = FALSE
  /\ characteristicRef' = NoChar
  /\ dataLogs' = addLog(dataLogs, "connection", "Disconnected from device")
  /\ UNCHANGED <<isSupported, twoIsScanning, error, advListeners, twoProc, fiveVars, threeVars, fourVars>>

clearLogs ==
  /\ dataLogs # <<>> \/ error # ""
  /\ dataLogs' = <<>>
  /\ error' = ""
  /\ UNCHANGED <<isSupported, twoDevice, isConnected, twoIsScanning, isReading, twoRefs,
                 twoTransport, twoProc, fiveVars, threeVars, fourVars>>

\* ------------------------------------------- approach four: the page
\* handleNotifications is a new function object in every render.  The render
\* that follows a step: when the step changed the React state, no call has
\* captured its handleNotifications; else the functions are those of before.
FourRerender(n) ==
  fourFn' = IF fourReact' # fourReact THEN 0 ELSE n

ErrFourConnect == "Error: connect failed"
ErrFourDisconnected == "Device disconnected."

FourUsedNums == fourCharListeners \cup fourDevListeners \cup {fourFn, fourPc.n, fourDpc.n}
FourFreeNums == FourNums \ FourUsedNums
FourFreshNum == CHOOSE n \in FourFreeNums : \A m \in FourFreeNums : n <= m

\* connectToDevice() from the Connect button (shown while not connected,
\* enabled with navigator.bluetooth), up to `await requestDevice(...)`.  The
\* call keeps the handleNotifications of the render it was made in.  One call
\* is in flight at a time.
FourConnectCall ==
  /\ ~fourIsConnected
  /\ fourPc = FourIdle /\ fourDpc = FourIdle
  /\ fourFn # 0 \/ FourFreeNums # {}
  /\ LET n == IF fourFn # 0 THEN fourFn ELSE FourFreshNum
     IN /\ fourError' = None
        /\ fourIsConnected' = FALSE
        /\ fourPc' = FourAt("requestDevice", n)
        /\ UNCHANGED <<fourImuData, fourDevice, fourCharacteristic>>
        /\ FourRerender(n)
  /\ fourDiscDone' = FALSE
  /\ UNCHANGED <<fourTransport, fourDpc, fiveVars, twoVars, threeVars>>

\* The catch of connectToDevice.
FourConnectFails ==
  /\ fourError' = ErrFourConnect
  /\ fourIsConnected' = FALSE
  /\ fourPc' = FourIdle
  /\ UNCHANGED <<fourImuData, fourDevice, fourCharacteristic>>
  /\ FourRerender(fourFn)

\* The chooser resolves with the device: setDevice; a device without a GATT
\* server ends the call, else the call goes on to `await gatt.connect()`.
FourRequestResolve(hasGatt) ==
  /\ fourPc.at = "requestDevice"
  /\ fourDevice' = TRUE
  /\ IF hasGatt
     THEN /\ fourPc' = FourAt("gattConnect", fourPc.n)
          /\ UNCHANGED fourError
     ELSE /\ fourPc' = FourIdle
          /\ fourError' = ErrNoGatt
  /\ UNCHANGED <<fourImuData, fourIsConnected, fourCharacteristic>>
  /\ FourRerender(fourFn)
  /\ UNCHANGED <<fourTransport, fourDpc, fourDiscDone, fiveVars, twoVars, threeVars>>

\* The chooser rejects (cancelled).
FourRequestReject ==
  /\ fourPc.at = "requestDevice"
  /\ FourConnectFails
  /\ UNCHANGED <<fourTransport, fourDpc, fourDiscDone, fiveVars, twoVars, threeVars>>

\* gatt.connect() resolves.  A connection that is newly made starts a new
\* session with fresh GATT attribute objects; it is made only after the
\* previous session's disconnect event was dispatched.
FourGattResolve ==
  /\ fourPc.at = "gattConnect"
  /\ ~fourPendingDisc
  /\ fourLink' = TRUE
  /\ fourCharListeners' = IF fourLink THEN fourCharListeners ELSE {}
  /\ fourPc' = FourAt("getPrimaryService", fourPc.n)
  /\ UNCHANGED <<fourReact, fourFn, fourPendingDisc, fourDevListeners, fourDpc,
                 fourDiscDone, fiveVars, twoVars, threeVars>>

\* gatt.connect() rejects.
FourGattReject ==
  /\ fourPc.at = "gattConnect"
  /\ ~fourLink
  /\ FourConnectFails
  /\ UNCHANGED <<fourTransport, fourDpc, fourDiscDone, fiveVars, twoVars, threeVars>>

\* getPrimaryService resolves, up to `await service.getCharacteristic(...)`.
FourServiceResolve ==
  /\ fourPc.at = "getPrimaryService"
  /\ fourLink
  /\ fourPc' = FourAt("getCharacteristic", fourPc.n)
  /\ UNCHANGED <<fourReact, fourFn, fourTransport, fourDpc, fourDiscDone,
                 fiveVars, twoVars, threeVars>>

\* getCharacteristic resolves: setCharacteristic, handleDeviceDisconnect is
\* created and registered, up to `await char.startNotifications()`.
FourCharResolve ==
  /\ fourPc.at = "getCharacteristic"
  /\ fourLink
  /\ fourCharacteristic' = TRUE
  /\ fourDevListeners' = fourDevListeners \cup {fourPc.n}
  /\ fourPc' = FourAt("startNotifications", fourPc.n)
  /\ UNCHANGED <<fourImuData, fourError, fourIsConnected, fourDevice>>
  /\ FourRerender(fourFn)
  /\ UNCHANGED <<fourLink, fourPendingDisc, fourCharListeners, fourDpc, fourDiscDone,
                 fiveVars, twoVars, threeVars>>

\* startNotifications() resolves: the call adds the handleNotifications it
\* closed over and ends.
FourNotifResolve ==
  /\ fourPc.at = "startNotifications"
  /\ fourLink
  /\ fourCharListeners' = fourCharListeners \cup {fourPc.n}
  /\ fourIsConnected' = TRUE
  /\ fourError' = None
  /\ fourPc' = FourIdle
  /\ UNCHANGED <<fourImuData, fourDevice, fourCharacteristic>>
  /\ FourRerender(fourFn)
  /\ UNCHANGED <<fourLink, fourPendingDisc, fourDevListeners, fourDpc, fourDiscDone,
                 fiveVars, twoVars, threeVars>>

\* getPrimaryService, getCharacteristic or startNotifications rejects.
FourDiscoveryReject ==
  /\ fourPc.at \in {"getPrimaryService", "getCharacteristic", "startNotifications"}
  /\ FourConnectFails
  /\ UNCHANGED <<fourTransport, fourDpc, fourDiscDone, fiveVars, twoVars, threeVars>>

\* A characteristicvaluechanged event: every attached listener runs
\* handleNotifications (approach-four.tsx has its own copy of parseIMUString).
FourNotification(payload) ==
  /\ fourLink
  /\ fourCharListeners # {}
  /\ LET parsedData == parseIMUString(payload)
     IN IF parsedData # NoIMU
        THEN /\ fourImuData' = parsedData
             /\ fourError' = None
             /\ fourFn' = 0
        ELSE UNCHANGED <<fourImuData, fourError, fourFn>>
  /\ UNCHANGED <<fourIsConnected, fourDevice, fourCharacteristic, fourTransport,
                 fourProc, fourDiscDone, fiveVars, twoVars, threeVars>>

\* The link is lost; the transport queues gattserverdisconnected.
FourTransportLoss ==
  /\ fourLink
  /\ fourLink' = FALSE
  /\ fourPendingDisc' = TRUE
  /\ UNCHANGED <<fourReact, fourFn, fourCharListeners, fourDevListeners, fourProc,
                 fourDiscDone, fiveVars, twoVars, threeVars>>

\* The gattserverdisconnected event is dispatched: each handleDeviceDisconnect
\* removes the handleNotifications of its call, resets the page and removes
\* itself.
FourDispatchDisconnected ==
  /\ fourPendingDisc
  /\ fourPendingDisc' = FALSE
  /\ fourCharListeners' = fourCharListeners \ fourDevListeners
  /\ fourDevListeners' = {}
  /\ IF fourDevListeners # {}
     THEN /\ fourIsConnected' = FALSE
          /\ fourDevice' = FALSE
          /\ fourCharacteristic' = FALSE
          /\ fourError' = ErrFourDisconnected
          /\ UNCHANGED fourImuData
     ELSE UNCHANGED fourReact
  /\ FourRerender(fourFn)
  /\ UNCHANGED <<fourLink, fourProc, fourDiscDone, fiveVars, twoVars, threeVars>>

\* characteristic.removeEventListener('characteristicvaluechanged', fn)
FourRemoveListener(listeners, fn) == listeners \ {fn}

\* The end of disconnectDevice, with the handleNotifications the call closed
\* over: the listener is removed when a characteristic was held, the link is
\* closed when it is open, the page is reset.
FourDisconnectFinish(fn, hadCharacteristic) ==
  /\ fourCharListeners' = IF hadCharacteristic THEN FourRemoveListener(fourCharListeners, fn)
                          ELSE fourCharListeners
  /\ fourLink' = FALSE
  /\ fourPendingDisc' = (fourPendingDisc \/ fourLink)
  /\ fourIsConnected' = FALSE
  /\ fourDevice' = FALSE
  /\ fourCharacteristic' = FALSE
  /\ fourDpc' = FourIdle
  /\ fourDiscDone' = TRUE
  /\ UNCHANGED <<fourImuData, fourError, fourDevListeners>>
  /\ FourRerender(fourFn)

\* disconnectDevice() from the Disconnect button (shown while connected): with
\* a characteristic and an open link it awaits stopNotifications(), else it
\* runs to its end.
FourDisconnectCall ==
  /\ fourIsConnected
  /\ fourDpc = FourIdle
  /\ IF fourDevice /\ fourCharacteristic /\ fourLink
     THEN /\ fourDpc' = FourAt("stopNotifications", fourFn)
          /\ UNCHANGED <<fourReact, fourFn, fourTransport, fourDiscDone>>
     ELSE IF fourDevice
     THEN FourDisconnectFinish(fourFn, fourCharacteristic)
     ELSE /\ fourIsConnected' = FALSE
          /\ fourDiscDone' = TRUE
          /\ UNCHANGED <<fourImuData, fourError, fourDevice, fourCharacteristic,
                         fourTransport, fourDpc>>
          /\ FourRerender(fourFn)
  /\ UNCHANGED <<fourPc, fiveVars, twoVars, threeVars>>

\* stopNotifications() resolves or rejects (the catch swallows it): the rest of
\* the call, with the device, characteristic and handleNotifications of the
\* render the call was made in.
FourDisconnectResume ==
  /\ fourDpc.at = "stopNotifications"
  /\ \E stopped \in BOOLEAN : FourDisconnectFinish(fourDpc.n, TRUE)
  /\ UNCHANGED <<fourPc, fiveVars, twoVars, threeVars>>

\* ------------------------------------------ approach three: the page
\* An entry of the list (its batteryLevel, which only the battery reads write,
\* is left out).
ThreeDeviceInfo(d, connected) == [id |-> d, connected |-> connected]

\* if (devices.length >= 4)
ThreeCap == 4

ErrThreeMax == "Maximum of 4 devices can be connected"
ErrThreeAlready == "Device already connected"
ErrThreeFailed == "Connection failed"

ThreeIdsOf(devs) == {devs[i].id : i \in DOMAIN devs}

\* prev.map(d => d.id === device.id ? { ...d, connected: false } : d)
ThreeMarkDisconnected(devs, d) ==
  [i \in DOMAIN devs |->
     IF devs[i].id = d THEN [devs[i] EXCEPT !.connected = FALSE] ELSE devs[i]]

\* prev.filter(d => d.id !== deviceId)
RECURSIVE ThreeFilter(_, _)
ThreeFilter(devs, d) ==
  IF devs = <<>> THEN <<>>
  ELSE IF Head(devs).id = d THEN ThreeFilter(Tail(devs), d)
       ELSE <<Head(devs)>> \o ThreeFilter(Tail(devs), d)

\* Variant of ThreeConnectCall without the check of the list's length.
ThreeConnectCallNoCap ==
  /\ threePc = ThreeIdle
  /\ ~threeIsScanning
  /\ threeIsScanning' = TRUE
  /\ threeError' = ""
  /\ threePc' = [at |-> "requestDevice", snapshot |-> ThreeIdsOf(threeDevices),
                 device |-> None]
  /\ UNCHANGED <<threeDevices, threeLink, threeHandlers, fiveVars, twoVars, fourVars>>

\* connectDevice(), called while no call is in flight (the button is disabled
\* while isScanning), up to `await requestDevice(...)`; with a full list it
\* sets the error and returns.
ThreeConnectCall ==
  /\ threePc = ThreeIdle
  /\ ~threeIsScanning
  /\ IF Len(threeDevices) >= ThreeCap
     THEN /\ threeError' = ErrThreeMax
          /\ UNCHANGED <<threeIsScanning, threePc>>
     ELSE /\ threeIsScanning' = TRUE
          /\ threeError' = ""
          /\ threePc' = [at |-> "requestDevice", snapshot |-> ThreeIdsOf(threeDevices),
                         device |-> None]
  /\ UNCHANGED <<threeDevices, threeLink, threeHandlers, fiveVars, twoVars, fourVars>>

\* The call ends with an error: the return or the catch, then finally.
ThreeConnectEnds(msg) ==
  /\ threeError' = msg
  /\ threeIsScanning' = FALSE
  /\ threePc' = ThreeIdle

\* The chooser resolves with device d: a device of the call's `devices` ends
\* the call, else the call goes on to `await device.gatt?.connect()`.
ThreeRequestResolve(d) ==
  /\ threePc.at = "requestDevice"
  /\ IF d \in threePc.snapshot
     THEN ThreeConnectEnds(ErrThreeAlready)
     ELSE /\ threePc' = [threePc EXCEPT !.at = "gattConnect", !.device = d]
          /\ UNCHANGED <<threeError, threeIsScanning>>
  /\ UNCHANGED <<threeDevices, threeLink, threeHandlers, fiveVars, twoVars, fourVars>>

\* The chooser rejects (cancelled).
ThreeRequestReject ==
  /\ threePc.at = "requestDevice"
  /\ ThreeConnectEnds(ErrThreeFailed)
  /\ UNCHANGED <<threeDevices, threeLink, threeHandlers, fiveVars, twoVars, fourVars>>

\* gatt.connect() resolves, up to the awaits of the battery read.
ThreeGattResolve ==
  /\ threePc.at = "gattConnect"
  /\ threeLink' = [threeLink EXCEPT ![threePc.device] = TRUE]
  /\ threePc' = [threePc EXCEPT !.at = "battery"]
  /\ UNCHANGED <<threeDevices, threeIsScanning, threeError, threeHandlers,
                 fiveVars, twoVars, fourVars>>

\* gatt.connect() rejects.
ThreeGattReject ==
  /\ threePc.at = "gattConnect"
  /\ ~threeLink[threePc.device]
  /\ ThreeConnectEnds(ErrThreeFailed)
  /\ UNCHANGED <<threeDevices, threeLink, threeHandlers, fiveVars, twoVars, fourVars>>

\* The battery read ends (its failure is swallowed): the entry is appended to
\* the latest list, the disconnect listener is added, then finally.
ThreeBatterySettles ==
  /\ threePc.at = "battery"
  /\ threeDevices' = Append(threeDevices, ThreeDeviceInfo(threePc.device, TRUE))
  /\ threeHandlers' = [threeHandlers EXCEPT ![threePc.device] = TRUE]
  /\ threeIsScanning' = FALSE
  /\ threePc' = ThreeIdle
  /\ UNCHANGED <<threeError, threeLink, fiveVars, twoVars, fourVars>>

\* The link to d is lost and its gattserverdisconnected event is dispatched:
\* the page's listener (never removed) marks the entry.
ThreeTransportLoss(d) ==
  /\ threeLink[d]
  /\ threeLink' = [threeLink EXCEPT ![d] = FALSE]
  /\ threeDevices' = IF threeHandlers[d] THEN ThreeMarkDisconnected(threeDevices, d)
                     ELSE threeDevices
  /\ UNCHANGED <<threeIsScanning, threeError, threeHandlers, threePc,
                 fiveVars, twoVars, fourVars>>

\* disconnectDevice(d) from the entry's button: gatt.disconnect() when the
\* link is open (its event marks the entry), then the entry is filtered out.
ThreeDisconnect(d) ==
  /\ d \in ThreeIdsOf(threeDevices)
  /\ threeLink' = [threeLink EXCEPT ![d] = FALSE]
  /\ threeDevices' = ThreeFilter(IF threeLink[d] /\ threeHandlers[d]
                                 THEN ThreeMarkDisconnected(threeDevices, d)
                                 ELSE threeDevices, d)
  /\ UNCHANGED <<threeIsScanning, threeError, threeHandlers, threePc,
                 fiveVars, twoVars, fourVars>>

\* ------------------------------------------------------------ behaviour
\* The scan, connect and transport steps.
ConnectSteps ==
  \/ ScanCall
  \/ \E d \in DeviceIds : ScanResolve(d)
  \/ \E d \in DeviceIds : ConnectCall(d)
  \/ \E d \in DeviceIds : ConnectGattResolve(d)
  \/ \E d \in DeviceIds : ConnectGattReject(d)
  \/ \E d \in DeviceIds : ConnectOptional(d)
  \/ \E d \in DeviceIds : ImuServiceResolve(d)
  \/ \E d \in DeviceIds : ImuCharResolve(d)
  \/ \E d \in DeviceIds : StartNotifResolve(d)
  \/ \E d \in DeviceIds : ImuReject(d)
  \/ \E d \in DeviceIds, payload \in Payloads : Notification(d, payload)
  \/ \E d \in DeviceIds : TransportLoss(d)
  \/ \E d \in DeviceIds : DispatchDisconnected(d)

\* The page with every operation but recording.
Next ==
  \/ ConnectSteps
  \/ ScanReject
  \/ \E d \in DeviceIds : ConnectCallUnknown(d)
  \/ \E d \in DeviceIds : DisconnectCall(d)
  \/ \E d \in DeviceIds : DisconnectResume(d)
  \/ \E d \in DeviceIds : RemoveDevice(d)

Spec == Init /\ [][Next]_vars

\* The devices that have a GATT server (Init's gattIds): the ones for which
\* connectToDevice awaits the transport.
WithGatt == {"d1"}

\* An awaited transport operation of connectToDevice(d) resolves or rejects.
ConnectSettles(d) ==
  \/ ConnectGattResolve(d)
  \/ ConnectGattReject(d)
  \/ ConnectOptional(d)
  \/ ImuServiceResolve(d)
  \/ ImuCharResolve(d)
  \/ StartNotifResolve(d)
  \/ ImuReject(d)

\* The page without notifications, when every transport operation that
\* connectToDevice awaits eventually resolves or rejects.
NextSettles ==
  \/ ScanCall
  \/ \E d \in DeviceIds : ScanResolve(d)
  \/ \E d \in DeviceIds : ConnectCall(d)
  \/ \E d \in DeviceIds : ConnectCallUnknown(d)
  \/ \E d \in DeviceIds : ConnectSettles(d)
  \/ \E d \in DeviceIds : TransportLoss(d)
  \/ \E d \in DeviceIds : DispatchDisconnected(d)
  \/ \E d \in DeviceIds : DisconnectCall(d)
  \/ \E d \in DeviceIds : DisconnectResume(d)
  \/ \E d \in DeviceIds : RemoveDevice(d)

SpecSettles == Init /\ [][NextSettles]_vars /\ \A d \in WithGatt : WF_vars(ConnectSettles(d))

\* Two connectable devices that are scanned, connected and lose their links,
\* with no user-requested disconnect or removal.
NextPair == ConnectSteps

SpecPair == InitPair /\ [][NextPair]_vars

\* The page with recording: scan, connect, disconnect, the transport's events
\* and the record button.
NextRec ==
  \/ ConnectSteps
  \/ \E d \in DeviceIds : DisconnectCall(d)
  \/ \E d \in DeviceIds : DisconnectResume(d)
  \/ startRecording
  \/ stopRecording

SpecRec == Init /\ [][NextRec]_vars

\* The page while devices stream: scan, connect, the transport's events (a
\* lost link is followed by a reconnect) and the record button, with no
\* user-requested disconnect.
NextStream ==
  \/ ConnectSteps
  \/ startRecording
  \/ stopRecording

SpecStream == Init /\ [][NextStream]_vars

\* The single-device page: every operation and event.  No tick of the timer
\* issues a read (see C20), so the continuations of readValue() have no step.
NextTwo ==
  \/ TwoConnectCall
  \/ \E watch \in BOOLEAN : TwoRequestResolve(watch)
  \/ \E notFound \in BOOLEAN : TwoRequestReject(notFound)
  \/ \E ok \in BOOLEAN : TwoWatchSettles(ok)
  \/ TwoGattResolve
  \/ TwoGattReject
  \/ TwoServiceResolve
  \/ TwoServiceReject
  \/ \E characteristics \in CharLists : TwoCharsResolve(characteristics)
  \/ TwoNotifResolve
  \/ TwoNotifReject
  \/ TwoTick
  \/ TwoNotification
  \/ TwoAdvertisement
  \/ TwoTransportLoss
  \/ disconnect
  \/ clearLogs

InitTwo ==
  FivePage /\ gattIds = {"d1"} /\ TwoPage /\ isSupported \in BOOLEAN /\ ThreePage /\ FourPage

SpecTwo == InitTwo /\ [][NextTwo]_vars

\* The single-device IMU page: every operation and event, with one device.
\* (The cleanup of the [device, characteristic] effect finds the link closed
\* and removes a function that is not attached: it has no step.)
NextFour ==
  \/ FourConnectCall
  \/ \E hasGatt \in BOOLEAN : FourRequestResolve(hasGatt)
  \/ FourRequestReject
  \/ FourGattResolve
  \/ FourGattReject
  \/ FourServiceResolve
  \/ FourCharResolve
  \/ FourNotifResolve
  \/ FourDiscoveryReject
  \/ \E payload \in Payloads : FourNotification(payload)
  \/ FourTransportLoss
  \/ FourDispatchDisconnected
  \/ FourDisconnectCall
  \/ FourDisconnectResume

\* The single-device page after a connect to a device that notifies (the
\* listener is attached, the timer runs) and clearLogs.
InitLog ==
  /\ FivePage /\ gattIds = {"d1"} /\ ThreePage /\ FourPage
  /\ isSupported = TRUE
  /\ twoDevice = TRUE
  /\ isConnected = TRUE
  /\ twoIsScanning = FALSE
  /\ dataLogs = <<>>
  /\ error = ""
  /\ isReading = TRUE
  /\ characteristicRef = Char(RX_CHARACTERISTIC_UUID, TRUE, FALSE)
  /\ intervalRef = Timer(FALSE)
  /\ linkUp = TRUE
  /\ valueListener = Listener(FALSE)
  /\ advListeners = 0
  /\ tpc = Idle
  /\ notifPending = NotPending
  /\ readsInFlight = 0

\* The device notifies one value after another; the user clears the log.
NextLog ==
  \/ \E data \in Values : TwoValueChanged(data)
  \/ clearLogs

SpecLog == InitLog /\ [][NextLog]_vars

\* The pages as mounted; the single-connection page does not use gattIds.
InitFour == InitPage /\ gattIds = {"d1"}

SpecFour == InitFour /\ [][NextFour]_vars

\* The battery monitor: every operation and event but the battery refresh.
NextThree ==
  \/ ThreeConnectCall
  \/ \E d \in ThreeIds : ThreeRequestResolve(d)
  \/ ThreeRequestReject
  \/ ThreeGattResolve
  \/ ThreeGattReject
  \/ ThreeBatterySettles
  \/ \E d \in ThreeIds : ThreeTransportLoss(d)
  \/ \E d \in ThreeIds : ThreeDisconnect(d)

\* The pages as mounted; the four-slot page does not use gattIds.
InitThree == InitPage /\ gattIds = {"d1"}

SpecThree == InitThree /\ [][NextThree]_vars

\* ------------------------------------------------------ decoding texts
\* The tokens the decoded texts are built from: "AX:1", "AX:-2.5", "AY:0",
\* "AZ:9", "GX:2", "GZ:3", "MY:-1", "MZ:6", "MAX:5", "ZZ:4", "ax:1", "hello:x",
\* "Battery:80%", "Battery:80", "Battery:-5%", "Battery:8.5%", "LowBattery:9%".
Tokens ==
  { Tok(<<"A", "X">>, TRUE, Num(FALSE, 1, NoFrac), FALSE),
    Tok(<<"A", "X">>, TRUE, Num(TRUE, 2, 5), FALSE),
    Tok(<<"A", "Y">>, TRUE, Num(FALSE, 0, NoFrac), FALSE),
    Tok(<<"A", "Z">>, TRUE, Num(FALSE, 9, NoFrac), FALSE),
    Tok(<<"G", "X">>, TRUE, Num(FALSE, 2, NoFrac), FALSE),
    Tok(<<"G", "Z">>, TRUE, Num(FALSE, 3, NoFrac), FALSE),
    Tok(<<"M", "Y">>, TRUE, Num(TRUE, 1, NoFrac), FALSE),
    Tok(<<"M", "Z">>, TRUE, Num(FALSE, 6, NoFrac), FALSE),
    Tok(<<"M", "A", "X">>, TRUE, Num(FALSE, 5, NoFrac), FALSE),
    Tok(<<"Z", "Z">>, TRUE, Num(FALSE, 4, NoFrac), FALSE),
    Tok(<<"a", "x">>, TRUE, Num(FALSE, 1, NoFrac), FALSE),
    Tok(<<"h", "e", "l", "l", "o">>, FALSE, NoNum, FALSE),
    Tok(BatteryWord, TRUE, Num(FALSE, 80, NoFrac), TRUE),
    Tok(BatteryWord, TRUE, Num(FALSE, 80, NoFrac), FALSE),
    Tok(BatteryWord, TRUE, Num(TRUE, 5, NoFrac), TRUE),
    Tok(BatteryWord, TRUE, Num(FALSE, 8, 5), TRUE),
    Tok(<<"L", "o", "w">> \o BatteryWord, TRUE, Num(FALSE, 9, NoFrac), TRUE) }

Texts == UNION {[1..n -> Tokens] : n \in 1..MaxTokens}

\* d1 is connected and subscribed, with the listeners of its connect attached.
InitDecode ==
  LET h == Handler("d1", 1, FALSE) IN
  /\ devices = <<ConnectFinalPatch(ConnectStartPatch(NewDeviceInfo("d1")), UpdIMUReady(h))>>
  /\ isScanning = FALSE
  /\ globalStatus = StIMUReady
  /\ isRecording = FALSE
  /\ recordedData = [d \in DeviceIds |-> <<>>]
  /\ gattConnected = [d \in DeviceIds |-> d = "d1"]
  /\ pendingDisc = [d \in DeviceIds |-> FALSE]
  /\ devListeners = [d \in DeviceIds |-> IF d = "d1" THEN {h} ELSE {}]
  /\ charListeners = [d \in DeviceIds |-> IF d = "d1" THEN {h} ELSE {}]
  /\ cpc = [d \in DeviceIds |-> "idle"]
  /\ cH = [d \in DeviceIds |-> NoHandler]
  /\ dpc = [d \in DeviceIds |-> "idle"]
  /\ dSnap = [d \in DeviceIds |-> [nh |-> NoHandler, dh |-> NoHandler]]
  /\ discDone = [d \in DeviceIds |-> FALSE]
  /\ downloads = [d \in DeviceIds |-> NoCSV]
  /\ gattIds = {"d1"}
  /\ TwoIdle /\ ThreePage /\ FourPage

\* The connected device sends one text after another.
NextDecode == \E text \in Texts : Notification("d1", text)

SpecDecode == InitDecode /\ [][NextDecode]_vars

\* --------------------------------------------------------- exporting CSV
\* The records of the texts built from "AX:0", "AX:1.5", "AZ:-2", "Battery:80%".
CsvTokens ==
  { Tok(<<"A", "X">>, TRUE, Num(FALSE, 0, NoFrac), FALSE),
    Tok(<<"A", "X">>, TRUE, Num(FALSE, 1, 5), FALSE),
    Tok(<<"A", "Z">>, TRUE, Num(TRUE, 2, NoFrac), FALSE),
    Tok(BatteryWord, TRUE, Num(FALSE, 80, NoFrac), TRUE) }

Samples ==
  {parseIMUString(text) : text \in UNION {[1..n -> CsvTokens] : n \in 1..MaxTokens}}

\* A recording is active with d1 connected and subscribed (its listener was
\* attached while recording) and d1's buffer holds some samples.
InitCsv ==
  LET h == Handler("d1", 1, TRUE) IN
  /\ devices = <<ConnectFinalPatch(ConnectStartPatch(NewDeviceInfo("d1")), UpdIMUReady(h))>>
  /\ isScanning = FALSE
  /\ globalStatus = StIMUReady
  /\ isRecording = TRUE
  /\ \E data \in UNION {[1..n -> Samples] : n \in 1..MaxSamples} :
       recordedData = [d \in DeviceIds |-> IF d = "d1" THEN data ELSE <<>>]
  /\ gattConnected = [d \in DeviceIds |-> d = "d1"]
  /\ pendingDisc = [d \in DeviceIds |-> FALSE]
  /\ devListeners = [d \in DeviceIds |-> IF d = "d1" THEN {h} ELSE {}]
  /\ charListeners = [d \in DeviceIds |-> IF d = "d1" THEN {h} ELSE {}]
  /\ cpc = [d \in DeviceIds |-> "idle"]
  /\ cH = [d \in DeviceIds |-> NoHandler]
  /\ dpc = [d \in DeviceIds |-> "idle"]
  /\ dSnap = [d \in DeviceIds |-> [nh |-> NoHandler, dh |-> NoHandler]]
  /\ discDone = [d \in DeviceIds |-> FALSE]
  /\ downloads = [d \in DeviceIds |-> NoCSV]
  /\ gattIds = {"d1"}
  /\ TwoIdle /\ ThreePage /\ FourPage

\* The recording is stopped and exported.
NextCsv == stopRecording

SpecCsv == InitCsv /\ [][NextCsv]_vars

\* =============================================================== claims
\* The entry of d shows Disconnected.
Disconnected(devs, d) ==
  Has(devs, d) /\ ~Find(devs, d).connected /\ ~Find(devs, d).isConnecting

\* The entry of d is Disconnected with its session fields cleared.
Cleared(devs, d) ==
  /\ Disconnected(devs, d)
  /\ Find(devs, d).characteristic = NoHandler
  /\ Find(devs, d).imuData = NoIMU

\* A step in which a disconnectDevice(d) call runs to its end.
DisconnectCompletes(d) ==
  \/ DisconnectCall(d) /\ ~DiscAwaits(d)
  \/ DisconnectResume(d)

\* C1: when disconnectDevice(d) completes, the entry of d (if present) is not
\* connected, not connecting, and has no characteristic and no imuData, whatever
\* it was before and however stopNotifications ended; a disconnectDevice(d) on
\* an entry that is already in that state leaves the registry as it is.
C1_DisconnectConverges ==
  [][\A d \in DeviceIds :
       (discDone'[d] /\ dpc'[d] = "idle" /\ DisconnectCompletes(d)) =>
         /\ Has(devices', d) => Cleared(devices', d)
         /\ Cleared(devices, d) => devices' = devices
    ]_vars

\* C1 witness: a disconnect has completed while a connect of d1 was in flight.
C1_Witness ==
  /\ discDone["d1"]
  /\ cpc["d1"] = "gattConnect"
  /\ Cleared(devices, "d1")
  /\ globalStatus = StDisconnected

\* C2: an entry that is Disconnected becomes Connecting or Connected only in a
\* step that is a connectToDevice(d) call.
C2_NoAutoReconnect ==
  [][\A d \in DeviceIds :
       (/\ Disconnected(devices, d)
        /\ Has(devices', d)
        /\ Find(devices', d).connected \/ Find(devices', d).isConnecting)
       => ConnectCall(d)
    ]_vars

\* C3: once disconnectDevice(d) has completed (and no connect of d was requested
\* since), a notification of d changes neither the registry nor the recording
\* buffers.
C3_NoTelemetryAfterDisconnect ==
  [][\A d \in DeviceIds, payload \in Payloads :
       (discDone[d] /\ Notification(d, payload))
       => (devices' = devices /\ recordedData' = recordedData)
    ]_vars

\* C4: when the link of d is down and its disconnect event has been dispatched,
\* the entry of d is not shown as connected.
C4_ConnectedHasLiveLink ==
  \A d \in DeviceIds :
    (Has(devices, d) /\ ~gattConnected[d] /\ ~pendingDisc[d])
    => ~Find(devices, d).connected

\* The entry of d is connected with a subscribed characteristic.
Subscribed(devs, d) ==
  Has(devs, d) /\ Find(devs, d).connected /\ Find(devs, d).characteristic # NoHandler

\* The entry of x is the same in both registries (or absent from both).
SameEntry(devsA, devsB, x) ==
  /\ Has(devsA, x) <=> Has(devsB, x)
  /\ Has(devsA, x) => Find(devsA, x) = Find(devsB, x)

\* C5: when the disconnect event of d is dispatched while the entry of d is
\* connected and subscribed, the entry becomes not connected with its
\* characteristic, handler references and imuData cleared, and its handler is no
\* longer registered; the event leaves every other device's entry and listeners
\* as they were.
C5_UnsolicitedDisconnect ==
  [][\A d \in DeviceIds :
       DispatchDisconnected(d) =>
         /\ Subscribed(devices, d) =>
              /\ Cleared(devices', d)
              /\ Find(devices', d).notificationHandler = NoHandler
              /\ Find(devices', d).disconnectHandler = NoHandler
              /\ Find(devices, d).disconnectHandler \notin devListeners'[d]
              /\ Find(devices, d).notificationHandler \notin charListeners'[d]
         /\ \A x \in DeviceIds \ {d} :
              /\ SameEntry(devices, devices', x)
              /\ devListeners'[x] = devListeners[x]
              /\ charListeners'[x] = charListeners[x]
    ]_vars

\* C5 witness: d1 was torn down by its disconnect event while d2 is still
\* connected and subscribed.
C5_Witness ==
  /\ Has(devices, "d1")
  /\ Find(devices, "d1").connectionError = ErrUnexpected
  /\ Cleared(devices, "d1")
  /\ devListeners["d1"] = {}
  /\ Subscribed(devices, "d2")
  /\ devListeners["d2"] # {}

\* C6: when removeDevice(d) returns for an entry that was connected, the entry
\* is gone, the link is closed and no listener of d is attached.
C6_RemoveLeavesNothing ==
  [][\A d \in DeviceIds :
       (RemoveDevice(d) /\ Has(devices, d) /\ Find(devices, d).connected)
       => /\ ~Has(devices', d)
          /\ ~gattConnected'[d]
          /\ devListeners'[d] = {}
          /\ charListeners'[d] = {}
    ]_vars

\* No two entries share an id.
UniqueIds(devs) ==
  \A i, j \in DOMAIN devs : devs[i].id = devs[j].id => i = j

\* C7: a scan that returns a device already in the registry leaves the registry
\* as it is and reports "already in the list"; the registry never holds two
\* entries with one id.
C7_ScanMerges ==
  [][/\ \A d \in DeviceIds :
          (ScanResolve(d) /\ Has(devices, d))
          => (devices' = devices /\ globalStatus' = StAlready)
     /\ UniqueIds(devices')
    ]_vars

\* C7 witness: a connected device was scanned again.
C7_Witness ==
  /\ globalStatus = StAlready
  /\ Subscribed(devices, "d1")
  /\ Len(devices) = 2

\* A step of an operation or event that concerns device d.
ConcernsDevice(d) ==
  \/ ConnectCallUnknown(d)
  \/ ConnectGattReject(d)
  \/ StartNotifResolve(d)
  \/ ImuReject(d)
  \/ DisconnectCall(d)
  \/ DisconnectResume(d)
  \/ RemoveDevice(d)
  \/ DispatchDisconnected(d)
  \/ /\ UNCHANGED <<isScanning, globalStatus, cpc, dpc>>
     /\ \E payload \in Payloads : Notification(d, payload)

\* C8: for an id that is not in the registry, the per-id updates of
\* connectToDevice, disconnectDevice and the handlers, and removeDevice, leave
\* the registry as it is; connectToDevice, disconnectDevice and removeDevice
\* can be called for such an id.
C8_UnknownIdNoOp ==
  /\ [][\/ devices' = devices
        \/ \A d \in DeviceIds : Has(devices, d) \/ ~ConcernsDevice(d)
       ]_vars
  /\ [](\A d \in DeviceIds :
          ~Has(devices, d) =>
            /\ ENABLED ConnectCallUnknown(d)
            /\ ENABLED RemoveDevice(d)
            /\ dpc[d] = "idle" => ENABLED DisconnectCall(d))

\* C8 witness: a connect of d1 has ended with its listeners attached after d1
\* was removed from the registry.
C8_Witness ==
  /\ ~Has(devices, "d1")
  /\ globalStatus = StIMUReady
  /\ charListeners["d1"] # {}

\* A step in which scanForDevices ends in its catch block: the chooser
\* rejected, or navigator.bluetooth is missing.
ScanFails ==
  \/ ScanReject
  \/ ScanCall /\ globalStatus' = StScanError

\* C9: when the chooser rejects or is cancelled, the registry is left as it is
\* and isScanning is false again.
C9_ScanRejectNoEntry ==
  [][ScanFails => (devices' = devices /\ isScanning' = FALSE)]_vars

\* C9 witness: the chooser was rejected with a connected device in the list.
C9_Witness ==
  /\ globalStatus = StScanError
  /\ ~isScanning
  /\ Subscribed(devices, "d1")

\* A step in which a connectToDevice(d) call ends because the GATT connection
\* could not be opened.
GattOpenFails(d) ==
  \/ cpc[d] = "gattConnect" /\ cpc'[d] = "idle" /\ ConnectGattReject(d)
  \/ d \notin gattIds /\ globalStatus' = StConnFailed /\ ConnectCall(d)

\* C10: when gatt.connect() rejects or the device has no GATT server, the
\* attempt ends with the entry not connected, not connecting and its
\* connectionError set to the failure message, and the call is over.
C10_GattOpenFailure ==
  [][\A d \in DeviceIds :
       (GattOpenFails(d) /\ Has(devices', d)) =>
         /\ Disconnected(devices', d)
         /\ Find(devices', d).connectionError =
              (IF d \in gattIds THEN ErrConnect ELSE ErrNoGatt)
         /\ cpc'[d] = "idle"
         /\ gattConnected'[d] = gattConnected[d]
    ]_vars

\* C10 witness: both kinds of failure have happened.
C10_Witness ==
  /\ Has(devices, "d1") /\ Find(devices, "d1").connectionError = ErrConnect
  /\ Has(devices, "d2") /\ Find(devices, "d2").connectionError = ErrNoGatt
  /\ cpc["d1"] = "idle"

\* A step in which disconnectDevice(d) is entered (from the Disconnect button or
\* from removeDevice) for an entry that is connected and subscribed over a live
\* link.
DisconnectStartsSubscribed(d) ==
  /\ dpc[d] = "idle"
  /\ gattConnected[d]
  /\ Subscribed(devices, d)
  /\ DisconnectCall(d) \/ RemoveDevice(d)

\* C11: disconnectDevice(d) for a connected, subscribed device first attempts
\* stopNotifications, with the link still open and every listener still
\* attached; the step that calls gatt.disconnect() leaves the link closed with
\* the entry's notification listener and disconnect listener already detached,
\* and no later step detaches a listener of d on behalf of the call.
C11_StopBeforeDisconnect ==
  [][\A d \in DeviceIds :
       /\ DisconnectStartsSubscribed(d) =>
            /\ dpc'[d] = "stopNotif"
            /\ UNCHANGED transportVars
            /\ dSnap'[d].nh = Find(devices, d).notificationHandler
            /\ dSnap'[d].dh = Find(devices, d).disconnectHandler
       /\ DisconnectResume(d) =>
            /\ ~gattConnected'[d]
            /\ dSnap[d].nh \notin charListeners'[d]
            /\ dSnap[d].dh \notin devListeners'[d]
            /\ dpc'[d] = "idle"
    ]_vars

\* C11 witness: disconnectDevice(d1) is suspended at stopNotifications with the
\* link open and both listeners of the entry still attached.
C11_Witness ==
  /\ dpc["d1"] = "stopNotif"
  /\ gattConnected["d1"]
  /\ dSnap["d1"].nh \in charListeners["d1"]
  /\ dSnap["d1"].dh \in devListeners["d1"]
  /\ Subscribed(devices, "d1")

\* C12: a gattserverdisconnected event of d that is dispatched after a
\* disconnectDevice(d) has completed (with no connect of d requested since)
\* does not set the connectionError of d to the unexpected-disconnect notice.
C12_ManualDisconnectSilent ==
  [][\A d \in DeviceIds :
       (DispatchDisconnected(d) /\ discDone[d] /\ Has(devices, d))
       => (Find(devices', d).connectionError = ErrUnexpected
             => Find(devices, d).connectionError = ErrUnexpected)
    ]_vars

\* A step of an operation or event of device d that writes the registry.
DeviceStep(d) == ConcernsDevice(d) \/ ConnectCall(d)

\* C13: a step of an operation or event of device d (connect and its failure,
\* disconnect, removal, notification, decode failure, unsolicited disconnect)
\* leaves the entry of every other device as it was.
C13_OtherEntriesUntouched ==
  [][\/ devices' = devices
     \/ \A d \in DeviceIds :
          \/ \A x \in DeviceIds \ {d} : SameEntry(devices, devices', x)
          \/ ~DeviceStep(d)
    ]_vars

\* C13 witness: d1 is connected and subscribed and shows a decode failure while
\* d2 shows its own connect failure.
C13_Witness ==
  /\ Subscribed(devices, "d1")
  /\ Find(devices, "d1").connectionError = ErrParse
  /\ Has(devices, "d2")
  /\ Find(devices, "d2").connectionError = ErrNoGatt

\* C14: while recording is active, a notification of a connected, subscribed
\* device that decodes to a record appends that record to the end of the
\* device's recording buffer.
C14_RecordsWhileRecording ==
  [][\A d \in DeviceIds, payload \in Payloads :
       (/\ Notification(d, payload)
        /\ isRecording
        /\ Subscribed(devices, d)
        /\ parseIMUString(payload) # NoIMU)
       => recordedData'[d] = Append(recordedData[d], parseIMUString(payload))
    ]_vars

\* The buffers after one record was appended to one device's buffer.
AppendsOne(recd, recdNew) ==
  \E d \in DeviceIds :
    /\ Len(recdNew[d]) = Len(recd[d]) + 1
    /\ recdNew = [recd EXCEPT ![d] = Append(@, recdNew[d][Len(recdNew[d])])]

\* C15: the recording buffers change only when startRecording empties every
\* buffer, or when one record is appended to one buffer while recording is
\* active.
C15_BuffersChangeOnlyWhileRecording ==
  [][recordedData' # recordedData =>
       \/ startRecording /\ \A d \in DeviceIds : recordedData'[d] = <<>>
       \/ isRecording /\ AppendsOne(recordedData, recordedData')
    ]_vars

\* `LABEL:number` with one of the nine axis labels.
AxisToken(t) == t.label \in DOMAIN keyMap /\ t.num

\* `Battery:<integer>%`
BatteryToken(t) ==
  t.label = BatteryWord /\ t.num /\ ~t.val.neg /\ t.val.frac = NoFrac /\ t.pct

\* The result the decoder is to give for a text: null when the text has no axis
\* token and no battery token; else a record with a Timestamp, the field of each
\* axis token with the value of such a token, Battery with the value of a
\* battery token, and no other field.
Decodes(text, r) ==
  LET axisFields == {keyMap[text[i].label] : i \in {j \in DOMAIN text : AxisToken(text[j])}}
      hasBattery == \E i \in DOMAIN text : BatteryToken(text[i])
  IN IF axisFields = {} /\ ~hasBattery THEN r = NoIMU
     ELSE /\ DOMAIN r = axisFields \cup {"Timestamp"}
                          \cup (IF hasBattery THEN {"Battery"} ELSE {})
          /\ \A k \in axisFields :
               \E i \in DOMAIN text :
                 /\ AxisToken(text[i]) /\ keyMap[text[i].label] = k
                 /\ r[k] = parseFloat(text[i].val)
          /\ hasBattery =>
               \E i \in DOMAIN text :
                 BatteryToken(text[i]) /\ r["Battery"] = parseInt(text[i].val)

\* What handleNotifications shows of the decoder's result in d's entry: a
\* decode failure on a connected entry, or the record.
Decoded(devs, d) ==
  IF Find(devs, d).connectionError = ErrParse THEN NoIMU ELSE Find(devs, d).imuData

\* C16: for every text built from tokens, parseIMUString gives exactly the
\* fields of the text's axis tokens and battery token with their values, plus a
\* Timestamp; tokens with another label add nothing; the result is null exactly
\* when the text has no axis token and no battery token.
C16_DecodeExact ==
  [][\A text \in Texts :
       Notification("d1", text) => Decodes(text, Decoded(devices', "d1"))
    ]_vars

\* The place of a column in the canonical order.
ColumnPos(c) == CHOOSE i \in DOMAIN headers : headers[i] = c

\* The columns that have a value in at least one sample.
ColumnsWithValue(data) ==
  {c \in {headers[j] : j \in DOMAIN headers} : \E k \in DOMAIN data : c \in DOMAIN data[k]}

\* C17: for a non-empty sample list the header holds exactly the columns that
\* have a value in at least one sample, in the canonical order; there is one row
\* per sample, each with as many fields as the header, a field holding the
\* sample's value for its column, or being empty exactly where the sample lacks
\* it.
C17_CsvShape ==
  [][stopRecording =>
       \A d \in DeviceIds :
         Len(recordedData[d]) > 0 =>
           LET data == recordedData[d]
               csv == downloads'[d]
           IN /\ {csv.headerRow[j] : j \in DOMAIN csv.headerRow} = ColumnsWithValue(data)
              /\ \A i, j \in DOMAIN csv.headerRow :
                   i < j => ColumnPos(csv.headerRow[i]) < ColumnPos(csv.headerRow[j])
              /\ Len(csv.rows) = Len(data)
              /\ \A i \in DOMAIN data :
                   /\ Len(csv.rows[i]) = Len(csv.headerRow)
                   /\ \A j \in DOMAIN csv.headerRow :
                        IF csv.headerRow[j] \in DOMAIN data[i]
                        THEN /\ ~csv.rows[i][j].empty
                             /\ csv.rows[i][j].val = data[i][csv.headerRow[j]]
                        ELSE csv.rows[i][j].empty
    ]_vars

\* C17 witness: a recording of two samples, one without Battery and one without
\* accZ, was exported: the header has accZ and Battery but no accX, and each row
\* has one empty field.
C17_Witness ==
  /\ globalStatus = StRecStopped
  /\ downloads["d1"].headerRow = <<"Timestamp", "accZ", "Battery">>
  /\ Len(downloads["d1"].rows) = 2
  /\ downloads["d1"].rows[1][3] = EmptyCell
  /\ downloads["d1"].rows[2][2] = EmptyCell
  /\ ~downloads["d1"].rows[1][2].empty

\* The first characteristic of the list with property P, by the order of the
\* list: exact uuid match, notify, read.
FirstWith(l, S) ==
  l[CHOOSE i \in S : \A j \in S : i <= j]

\* The characteristic the preference order selects: the one with the known
\* uuid; else the first that supports notify; else the first that supports
\* read; else the first of the list; none for an empty list.
Preferred(l) ==
  LET exact == {i \in DOMAIN l : l[i].uuid = RX_CHARACTERISTIC_UUID}
      notifying == {i \in DOMAIN l : l[i].notify}
      readable == {i \in DOMAIN l : l[i].read}
  IN IF exact # {} THEN FirstWith(l, exact)
     ELSE IF notifying # {} THEN FirstWith(l, notifying)
     ELSE IF readable # {} THEN FirstWith(l, readable)
     ELSE IF l # <<>> THEN l[1]
     ELSE NoChar

\* C18: for every list getCharacteristics resolves with,
\* connectToNordicUartService selects the characteristic the preference order
\* gives (none for an empty list), and the page stays connected.
C18_PreferenceOrder ==
  [][tpc.at = "getCharacteristics" =>
       \A l \in CharLists :
         TwoCharsResolve(l) =>
           /\ characteristicRef' = Preferred(l)
           /\ isConnected' = isConnected
    ]_vars

\* A step in which startDataReading runs.
StartsDataReading ==
  /\ tpc.at = "getCharacteristics"
  /\ \E l \in CharLists : TwoCharsResolve(l) /\ l # <<>>

\* C19 as stated: startDataReading requests notifications when the selected
\* characteristic supports notify, and starts the poll timer only when the
\* characteristic supports read and not notify.
C19_PollOnlyAsFallback ==
  [][StartsDataReading =>
       /\ characteristicRef'.notify => notifPending'.pending
       /\ intervalRef'.active => (characteristicRef'.read /\ ~characteristicRef'.notify)
    ]_vars

\* C19 as amended: startDataReading requests notifications exactly when the
\* selected characteristic supports notify, and starts the one-second timer in
\* every case.
C19_PollAlwaysStarted ==
  [][StartsDataReading =>
       /\ characteristicRef'.notify <=> notifPending'.pending
       /\ intervalRef' = Timer(tpc.isConnected)
       /\ isReading'
    ]_vars

\* C19 witness: notifications are subscribed on a characteristic that supports
\* notify while the timer runs as well.
C19_Witness ==
  /\ characteristicRef.notify
  /\ valueListener.attached
  /\ intervalRef.active
  /\ isConnected /\ linkUp

\* The page shows Connected over a live link, the timer runs and the selected
\* characteristic supports read.
Polling ==
  /\ isConnected /\ linkUp
  /\ intervalRef.active
  /\ characteristicRef # NoChar /\ characteristicRef.read

\* C20: while the device stays connected and the selected characteristic
\* supports read, a tick of the timer issues a readValue.
C20_TickReads ==
  (Polling /\ readsInFlight < MaxReads)
  => ENABLED (TwoTick /\ readsInFlight' = readsInFlight + 1)

\* C21: once the link is down (disconnect() was called, or the transport
\* disconnected on its own) the poll timer is cancelled, so that no tick fires,
\* and no readValue() is pending whose result could be logged as a 'read'.
C21_NoPollAfterTeardown ==
  ~linkUp => (~intervalRef.active /\ readsInFlight = 0)

C23_DecodeFailureKeepsSession ==
  [][\A d \in DeviceIds, payload \in Payloads :
       (parseIMUString(payload) = NoIMU /\ Notification(d, payload)) =>
         /\ recordedData' = recordedData
         /\ UNCHANGED transportVars
         /\ Has(devices', d) <=> Has(devices, d)
         /\ Has(devices, d) =>
              /\ Find(devices', d).connected = Find(devices, d).connected
              /\ Find(devices', d).isConnecting = Find(devices, d).isConnecting
              /\ Find(devices', d).characteristic = Find(devices, d).characteristic
              /\ Find(devices', d).notificationHandler = Find(devices, d).notificationHandler
              /\ Find(devices', d).disconnectHandler = Find(devices, d).disconnectHandler
              /\ Find(devices', d).imuData = Find(devices, d).imuData
    ]_vars

\* C23 witness: while recording, d1 is connected and subscribed, still shows
\* the record it decoded last and the decode failure of a later packet.
C23_Witness ==
  /\ isRecording
  /\ Subscribed(devices, "d1")
  /\ gattConnected["d1"]
  /\ Find(devices, "d1").connectionError = ErrParse
  /\ Find(devices, "d1").imuData # NoIMU
  /\ Find(devices, "d1").notificationHandler.rec
  /\ Len(recordedData["d1"]) = 1

\* C24: when the gattserverdisconnected event of d runs a handler of the page,
\* the connectionError of d's entry becomes the disconnect notice if the entry
\* had no error, and stays as it was if the entry already had one.
C24_DisconnectNoticeKeepsError ==
  [][\A d \in DeviceIds :
       (DispatchDisconnected(d) /\ devListeners[d] # {} /\ Has(devices, d)) =>
         Find(devices', d).connectionError =
           (IF Find(devices, d).connectionError = None THEN ErrUnexpected
            ELSE Find(devices, d).connectionError)
    ]_vars

\* C24 witness: the handler of d1 has torn the entry down (no disconnectDevice
\* completed since the connect) and the entry still shows the decode failure it
\* had before.
C24_Witness ==
  /\ Has(devices, "d1")
  /\ Cleared(devices, "d1")
  /\ Find(devices, "d1").connectionError = ErrParse
  /\ ~discDone["d1"]
  /\ dpc["d1"] = "idle"
  /\ ~gattConnected["d1"] /\ ~pendingDisc["d1"]
  /\ devListeners["d1"] = {}

\* A step in which a suspended connectToDevice(d) or disconnectDevice(d)
\* writes its result to the registry.
WritesResult(d) ==
  \/ ConnectGattReject(d)
  \/ StartNotifResolve(d)
  \/ ImuReject(d)
  \/ DisconnectResume(d)

\* C25: when a suspended operation of d writes its result, the registry keeps
\* its length and order and every other device's entry as it is at that moment
\* (with all that was added or changed during the suspension); when a
\* suspended scan resolves, every entry of the registry at that moment is kept
\* as it is, in place, and the scanned device is listed.
C25_NoLostUpdate ==
  [][\A d \in DeviceIds :
       /\ WritesResult(d) =>
            /\ Len(devices') = Len(devices)
            /\ \A i \in DOMAIN devices :
                 /\ devices'[i].id = devices[i].id
                 /\ devices[i].id # d => devices'[i] = devices[i]
       /\ ScanResolve(d) =>
            /\ Len(devices') >= Len(devices)
            /\ \A i \in DOMAIN devices : devices'[i] = devices[i]
            /\ Has(devices', d)
    ]_vars

\* C25 witness: while a scan awaits the chooser, the connect of d1 has written
\* its result, with d2's earlier connect failure still in the registry.
C25_Witness ==
  /\ isScanning
  /\ globalStatus = StIMUReady
  /\ Subscribed(devices, "d1")
  /\ Has(devices, "d2")
  /\ Find(devices, "d2").connectionError = ErrNoGatt
  /\ cpc["d1"] = "idle"

\* C26: once disconnectDevice has completed (and connectToDevice was not
\* called since), no characteristicvaluechanged listener is attached to the
\* characteristic.
C26_ListenerRemoved ==
  fourDiscDone => fourCharListeners = {}

\* C27: the list of approach three never holds more than four entries nor two
\* entries with one id; a connectDevice call made with a full list, and a
\* chooser result that is already in the list, leave the list as it is and end
\* the call.
C27_ThreeListBounded ==
  [][/\ Len(threeDevices') <= ThreeCap
     /\ UniqueIds(threeDevices')
     /\ (ThreeConnectCall /\ Len(threeDevices) >= ThreeCap)
          => (threeDevices' = threeDevices /\ threePc' = ThreeIdle)
     /\ \A d \in ThreeIds :
          (ThreeRequestResolve(d) /\ Has(threeDevices, d))
            => (threeDevices' = threeDevices /\ threePc' = ThreeIdle)
    ]_vars

\* C27 witness: connectDevice was called with four devices in the list.
C27_Witness ==
  /\ Len(threeDevices) = ThreeCap
  /\ threeError = ErrThreeMax
  /\ \E i \in DOMAIN threeDevices : ~threeDevices[i].connected

\* C28: an addLog puts the new entry first and keeps the previous entries
\* behind it in their order; the list never holds more than 100 entries; added
\* to a list of 100, the new entry pushes out the last (oldest) one and only
\* that one.
C28_LogCapNewestFirst ==
  [][\A data \in Values :
       TwoValueChanged(data) =>
         /\ Len(dataLogs') <= 100
         /\ Len(dataLogs') = (IF Len(dataLogs) < 100 THEN Len(dataLogs) + 1 ELSE 100)
         /\ dataLogs'[1] = Log("notification", data)
         /\ \A i \in 1..(Len(dataLogs') - 1) : dataLogs'[i + 1] = dataLogs[i]
    ]_vars

\* C28 witness: the list is full and its oldest entry is the marked one, with
\* every other entry newer.
C28_Witness ==
  /\ Len(dataLogs) = 100
  /\ dataLogs[100].data = Marked
  /\ dataLogs[1].data # Marked

\* C29: at any time at most one gattserverdisconnected listener of the page is
\* attached to a device, so one disconnect event runs the teardown once.
C29_SingleDisconnectHandler ==
  \A d \in DeviceIds : Cardinality(devListeners[d]) <= 1

\* C30: when every transport operation it awaits resolves or rejects, a
\* connectToDevice(d) call terminates (a call for a device without a GATT
\* server never awaits); the step that ends it leaves the entry of d, if there
\* is one, with isConnecting = false; and an entry is connecting only while a
\* call for it is in flight.
C30_ConnectTerminates ==
  /\ \A d \in WithGatt : (cpc[d] # "idle") ~> (cpc[d] = "idle")
  /\ [](gattIds = WithGatt /\ \A d \in DeviceIds \ WithGatt : cpc[d] = "idle")
  /\ [][\A d \in DeviceIds :
          (cpc[d] # "idle" /\ cpc'[d] = "idle" /\ Has(devices', d))
            => ~Find(devices', d).isConnecting]_vars
  /\ [](\A d \in DeviceIds :
          (Has(devices, d) /\ Find(devices, d).isConnecting) => cpc[d] # "idle")

\* C30 witness: a call for d1 went through all its awaits and has ended, and
\* the entry is connected and no longer connecting.
C30_Witness ==
  /\ cpc["d1"] = "idle"
  /\ Has(devices, "d1")
  /\ Find(devices, "d1").connected
  /\ ~Find(devices, "d1").isConnecting
  /\ globalStatus = StIMUReady

====
